---- MODULE Spec2Model ----
(***************************************************************************)
(* A model of the threshold-driven action scheduler of the Windify bot.    *)
(*                                                                         *)
(* AutoHealer (healer.py) is modelled as a state machine: its fields are   *)
(* the variables, every public method is one action.  Time is counted in   *)
(* ticks of 1/TicksPerSecond second.  The percentages are Python floats    *)
(* (IEEE 754 binary64); they are modelled bit for bit, as a 53 bit         *)
(* significand held in limbs of 13 bits and a binary exponent, with the    *)
(* round-to-nearest-even of the two operations the code performs           *)
(* (current / max, then * 100).                                            *)
(***************************************************************************)
EXTENDS Integers, Sequences, FiniteSets, TLC

(***************************************************************************)
(* Bounds of the model.                                                    *)
(***************************************************************************)
\* Clock resolution: ticks per second.
TicksPerSecond == 2
\* How far the clock runs after the first call, in ticks.
Horizon == 4

(***************************************************************************)
(* Program constants.                                                      *)
(***************************************************************************)
\* healer.py:29, in seconds.
COOLDOWN == 1
\* Python's None, for the Optional[int] fields and readings.
None == -1
\* The bounds the threshold setters accept (healer.py:146).
MinThreshold == 1
MaxThreshold == 99

CooldownTicks == COOLDOWN * TicksPerSecond
\* time.time() is seconds since the epoch: far more than COOLDOWN after
\* last_cast_time = 0.0, so the first call finds the cooldown ready.
StartTime == CooldownTicks
MaxTime == StartTime + Horizon

(***************************************************************************)
(* IEEE 754 binary64 arithmetic on positive values.                        *)
(* A float is [sig |-> <<d1, .., d5>>, exp |-> e] and stands for           *)
(*   (d1*Base^4 + d2*Base^3 + d3*Base^2 + d4*Base + d5) * 2^e              *)
(* with d1 = 1 and 0 <= d2..d5 < Base = 2^13, i.e. a significand in        *)
(* [2^52, 2^53).                                                           *)
(***************************************************************************)
LimbBits == 12 + 1
Base == 2^LimbBits

\* The least a with c * 2^a >= m.
RECURSIVE ScaleUp(_, _)
ScaleUp(c, m) == IF c >= m THEN 0 ELSE 1 + ScaleUp(2 * c, m)

\* The greatest b with m * 2^b <= n.
RECURSIVE ScaleDown(_, _)
ScaleDown(n, m) == IF 2 * m > n THEN 0 ELSE 1 + ScaleDown(n, 2 * m)

\* The significand plus one unit in the last place, renormalised.
RoundUp(sig, e) ==
    IF sig[5] + 1 < Base THEN [sig |-> [sig EXCEPT ![5] = @ + 1], exp |-> e]
    ELSE IF sig[4] + 1 < Base
         THEN [sig |-> [sig EXCEPT ![5] = 0, ![4] = @ + 1], exp |-> e]
    ELSE IF sig[3] + 1 < Base
         THEN [sig |-> [sig EXCEPT ![5] = 0, ![4] = 0, ![3] = @ + 1], exp |-> e]
    ELSE IF sig[2] + 1 < Base
         THEN [sig |-> [sig EXCEPT ![5] = 0, ![4] = 0, ![3] = 0, ![2] = @ + 1],
               exp |-> e]
    ELSE [sig |-> <<1, 0, 0, 0, 0>>, exp |-> e + 1]

\* c / m for positive Python ints: the correctly rounded quotient.
FDiv(c, m) ==
    LET a   == ScaleUp(c, m)
        num == c * 2^a
        b   == ScaleDown(num, m)
        den == m * 2^b
        r0  == num - den
        d1  == (r0 * Base) \div den
        r1  == (r0 * Base) % den
        d2  == (r1 * Base) \div den
        r2  == (r1 * Base) % den
        d3  == (r2 * Base) \div den
        r3  == (r2 * Base) % den
        d4  == (r3 * Base) \div den
        r4  == (r3 * Base) % den
        sig == <<1, d1, d2, d3, d4>>
        e   == b - a - 4 * LimbBits
    IN  IF 2 * r4 > den \/ (2 * r4 = den /\ d4 % 2 = 1)
        THEN RoundUp(sig, e)
        ELSE [sig |-> sig, exp |-> e]

\* The number of bits of n above the lowest: the greatest s with 2^s <= n.
RECURSIVE Log2(_)
Log2(n) == IF n < 2 THEN 0 ELSE 1 + Log2(n \div 2)

\* f * k for a float f and the float of a small positive int k (k < 2^12):
\* the exact product, rounded to nearest even.
FMul(f, k) ==
    LET x5  == f.sig[5] * k
        x4  == f.sig[4] * k + x5 \div Base
        x3  == f.sig[3] * k + x4 \div Base
        x2  == f.sig[2] * k + x3 \div Base
        top == f.sig[1] * k + x2 \div Base
        p   == <<top, x2 % Base, x3 % Base, x4 % Base, x5 % Base>>
        sh  == Log2(top)
        S   == 2^sh
        q   == <<p[1] \div S,
                 (p[1] % S) * (Base \div S) + p[2] \div S,
                 (p[2] % S) * (Base \div S) + p[3] \div S,
                 (p[3] % S) * (Base \div S) + p[4] \div S,
                 (p[4] % S) * (Base \div S) + p[5] \div S>>
        dropped == p[5] % S
        e   == f.exp + sh
    IN  IF 2 * dropped > S \/ (2 * dropped = S /\ q[5] % 2 = 1)
        THEN RoundUp(q, e)
        ELSE [sig |-> q, exp |-> e]

\* The part of limb d, of weight 2^w, that lies at or above the units.
LimbFloor(d, w) ==
    IF w >= 0 THEN d * 2^w
    ELSE IF w > -LimbBits THEN d \div 2^(-w)
    ELSE 0

\* floor(f), for f < 2^30.
Floor(f) ==
    LimbFloor(f.sig[1], 4 * LimbBits + f.exp)
  + LimbFloor(f.sig[2], 3 * LimbBits + f.exp)
  + LimbFloor(f.sig[3], 2 * LimbBits + f.exp)
  + LimbFloor(f.sig[4], LimbBits + f.exp)
  + LimbFloor(f.sig[5], f.exp)

\* f < t for a float f and a Python int t (Python compares the two exactly;
\* for an integer t, f < t iff floor(f) < t).
FLess(f, t) == Floor(f) < t

\* The literal 100.0 = 2^52 * (1 + 4608/2^13) * 2^-46.
Float100 == [sig |-> <<1, 9 * 2^9, 0, 0, 0>>, exp |-> -46]


(***************************************************************************)
(* The state: the fields of one AutoHealer, the clock, and what the        *)
(* action sink (press_key) and the caller have observed.                   *)
(***************************************************************************)
VARIABLES
    max_hp,          \* AutoHealer.max_hp, None or a positive int
    max_mana,        \* AutoHealer.max_mana
    heal,            \* AutoHealer.heal: [enabled, threshold, hotkey]
    critical_heal,   \* AutoHealer.critical_heal
    mana_restore,    \* AutoHealer.mana_restore
    last_cast_time,  \* AutoHealer.last_cast_time, in ticks
    critical_is_potion, \* AutoHealer.critical_is_potion
    now,             \* time.time(), in ticks
    call,            \* the check_* call that has just returned, if any
    last_press,      \* when press_key was last called, None if never
    last_fire_at,    \* when the last call that pressed a key began, or None
    eater,           \* AutoEater: [enabled, hotkey, current_food, next_eat_time]
    haste,           \* AutoHaste: [enabled, hotkey, next_cast_time]
    skinner,         \* AutoSkinner: [enabled, hotkey, running]
    workers,         \* the _perform_skinning threads in flight: their start times
    env,             \* the input source and the key sink, as the units leave them
    bot,             \* TibiaBot: [running, active]
    reader,          \* HPManaReader: the regions (set or not) and the cache
    config,          \* ConfigManager.config, as persisted by save()
    loop             \* the thread of run_loop: its position and its locals

vars == <<max_hp, max_mana, heal, critical_heal, mana_restore, last_cast_time,
          critical_is_potion, now, call, last_press, last_fire_at, eater, haste,
          skinner, workers, env, bot, reader, config, loop>>

\* The fields of the three units that are not the healer, their threads, and
\* the input source and key sink they act on.
unit_vars == <<eater, haste, skinner, workers, env>>

\* The fields of the orchestrator and of its perception source.
orchestrator_vars == <<bot, reader, config>>

\* HealConfig (healer.py:11-16).
HealConfig(enabled, threshold, hotkey) ==
    [enabled |-> enabled, threshold |-> threshold, hotkey |-> hotkey]

\* No check_* call has returned since the last other operation.
NoCall ==
    [op |-> "none", hp |-> None, mana |-> None, heal_result |-> "None",
     mana_restored |-> FALSE, keys |-> <<>>, at |-> 0, on_cooldown |-> FALSE,
     max_hp0 |-> None, max_mana0 |-> None, prev_press |-> None,
     prev_fire_at |-> None, key |-> "None", value |-> None, stamp |-> None,
     timer0 |-> None, hp_result |-> <<None, None>>,
     mana_result |-> <<None, None>>,
     status |-> [hp_current |-> None, hp_max |-> None, mana_current |-> None,
                 mana_max |-> None]]

\* AutoEater.__init__ (eater.py:28-33).
AutoEater ==
    [enabled |-> FALSE, hotkey |-> "]", current_food |-> "fire_mushroom",
     next_eat_time |-> 0]

\* AutoHaste.__init__ (haste.py:6-10).
AutoHaste == [enabled |-> FALSE, hotkey |-> "x", next_cast_time |-> 0]

\* AutoSkinner.__init__ (skinner.py:13-18).
\* listener is FALSE for None and TRUE for a mouse.Listener.
AutoSkinner ==
    [enabled |-> FALSE, hotkey |-> "[", listener |-> FALSE, running |-> FALSE]

\* The input source and the key sink before anything has run: no listener is
\* subscribed, no qualifying click was made, the skinner pressed no key, and
\* the last press of a heal-family key, if any, was delivered.  enabled_at
\* is the clock at which the haste unit became enabled, None while it is
\* disabled, and cast_at the clock by which the haste hotkey was last
\* pressed, None if it never was.  meal_reset tells that the user reset the
\* timer of the eater while a meal was in progress.  hp_seen and mana_seen are the pairs the screen last showed
\* legibly in the region of each resource since the reader was constructed
\* or reset, <<None, None>> when it has shown none.
NoEvent ==
    [listeners |-> 0, clicks |-> 0, presses |-> 0, delivered |-> TRUE,
     enabled_at |-> None, cast_at |-> None, hp_seen |-> <<None, None>>,
     mana_seen |-> <<None, None>>, meal_reset |-> FALSE]

\* UserConfig() (user_config.py:13-74), the defaults of the settings; a
\* region is TRUE when it is set.
UserConfig ==
    [hp_region |-> FALSE, mana_region |-> FALSE,
     heal_enabled |-> TRUE, heal_threshold |-> 75, heal_hotkey |-> "F1",
     critical_enabled |-> TRUE, critical_threshold |-> 50,
     critical_hotkey |-> "F2",
     mana_enabled |-> TRUE, mana_threshold |-> 60, mana_hotkey |-> "F4",
     eater_enabled |-> FALSE, food_type |-> "fire_mushroom",
     eater_hotkey |-> "]",
     haste_enabled |-> FALSE, haste_hotkey |-> "x",
     skinner_enabled |-> FALSE, skinner_hotkey |-> "["]

\* TibiaBot.__init__ (main.py:30-31).  handler is the position of the main
\* thread inside the event of the overlay it is handling, "idle" between
\* two events.
TibiaBot == [running |-> FALSE, active |-> FALSE, handler |-> "idle"]

\* HPManaReader.__init__ (hp_mana_reader.py:47-57): no region, nothing cached.
HPManaReader ==
    [hp_region |-> FALSE, mana_region |-> FALSE,
     last_hp_current |-> None, last_hp_max |-> None,
     last_mana_current |-> None, last_mana_max |-> None]

\* The thread of run_loop before run() starts it: its position, the status
\* it read and the result of its HP check, and, of the iteration it is in,
\* whether the cooldown was ready when it began and the heal-family keys
\* pressed so far.
NoLoop ==
    [pc |-> "idle", hp_current |-> None, hp_max |-> None,
     mana_current |-> None, mana_max |-> None, heal_result |-> "None",
     ready |-> FALSE, keys |-> <<>>]

\* AutoHealer.__init__ (healer.py:31-53), and the three other units, the
\* reader and the orchestrator as TibiaBot.__init__ leaves them with the
\* default settings (main.py:22-38).
Init ==
    /\ max_hp = None
    /\ max_mana = None
    /\ heal = HealConfig(TRUE, 75, "F1")
    /\ critical_heal = HealConfig(TRUE, 50, "F2")
    /\ mana_restore = HealConfig(TRUE, 60, "F4")
    /\ last_cast_time = 0
    /\ now = StartTime
    /\ call = NoCall
    /\ last_press = None
    /\ last_fire_at = None
    /\ eater = AutoEater
    /\ haste = AutoHaste
    /\ skinner = AutoSkinner
    /\ workers = <<>>
    /\ bot = TibiaBot
    /\ reader = HPManaReader
    /\ loop = NoLoop
    /\ critical_is_potion = FALSE
    /\ env = NoEvent
    /\ config = UserConfig

\* Python truthiness of an Optional[int]: None and 0 are falsy.
Falsy(x) == x = None \/ x = 0

\* auto_detect_max with the reading tested by >= 0 alone.
auto_detect_max_nonneg(max, current) ==
    IF max = None /\ current # None /\ current >= 0 THEN current ELSE max

\* auto_detect_max that follows the highest reading seen.
auto_detect_max_highest(max, current) ==
    IF ~Falsy(current) /\ (max = None \/ current > max) THEN current ELSE max

\* auto_detect_max_hp / auto_detect_max_mana: the capacity after the call.
auto_detect_max(max, current) ==
    IF max = None /\ ~Falsy(current) /\ current > 0 THEN current ELSE max

\* The float 0.0 (outside the normalised range of the operators above).
FloatZero == [sig |-> <<0, 0, 0, 0, 0>>, exp |-> -4 * LimbBits]

\* get_percent without the test of the reading: 0 / max * 100 is 0.0.
get_percent_unchecked(max, current) ==
    IF Falsy(max) \/ current = None THEN Float100
    ELSE IF current = 0 THEN FloatZero
    ELSE FMul(FDiv(current, max), 100)

\* get_percent with the operands of the division exchanged.
get_percent_swapped(max, current) ==
    IF Falsy(max) \/ Falsy(current) THEN Float100
    ELSE FMul(FDiv(max, current), 100)

\* get_hp_percent / get_mana_percent on capacity max.
get_percent(max, current) ==
    IF Falsy(max) \/ Falsy(current) THEN Float100
    ELSE FMul(FDiv(current, max), 100)

\* is_on_cooldown, with time.time() = now.
is_on_cooldown == (now - last_cast_time) < CooldownTicks

\* check_and_heal with the normal heal tested before the critical one.
check_and_heal_slots_normal_first(max, current_hp) ==
    IF Falsy(max) THEN <<>>
    ELSE IF is_on_cooldown THEN <<>>
    ELSE IF heal.enabled /\ FLess(get_percent(max, current_hp), heal.threshold)
         THEN <<"normal">>
    ELSE IF critical_heal.enabled
            /\ FLess(get_percent(max, current_hp), critical_heal.threshold)
         THEN <<"critical">>
    ELSE <<>>

\* check_and_heal without the return after the critical cast: the normal
\* test runs as well.
check_and_heal_slots_fallthrough(max, current_hp) ==
    IF Falsy(max) THEN <<>>
    ELSE IF is_on_cooldown THEN <<>>
    ELSE (IF critical_heal.enabled
             /\ FLess(get_percent(max, current_hp), critical_heal.threshold)
          THEN <<"critical">> ELSE <<>>)
      \o (IF heal.enabled /\ FLess(get_percent(max, current_hp), heal.threshold)
          THEN <<"normal">> ELSE <<>>)

\* The slots check_and_heal fires for this reading, in the order of their
\* presses: <<"critical">>, <<"normal">> or none.  max is the capacity after
\* auto-detection (healer.py:108-127).
check_and_heal_slots(max, current_hp) ==
    IF Falsy(max) THEN <<>>
    ELSE IF is_on_cooldown THEN <<>>
    ELSE IF critical_heal.enabled
            /\ FLess(get_percent(max, current_hp), critical_heal.threshold)
         THEN <<"critical">>
    ELSE IF heal.enabled /\ FLess(get_percent(max, current_hp), heal.threshold)
         THEN <<"normal">>
    ELSE <<>>

\* The slots check_and_restore_mana fires: <<"mana">> or none
\* (healer.py:164-178).
check_and_restore_mana_slots(max, current_mana) ==
    IF Falsy(max) THEN <<>>
    ELSE IF is_on_cooldown THEN <<>>
    ELSE IF mana_restore.enabled
            /\ FLess(get_percent(max, current_mana), mana_restore.threshold)
         THEN <<"mana">>
    ELSE <<>>

\* check_critical_and_mana_with_priority with the mana test first.
check_mana_and_critical_slots(mhp, mmana, current_hp, current_mana) ==
    LET hp_percent   == IF ~Falsy(current_hp) /\ ~Falsy(mhp)
                        THEN get_percent(mhp, current_hp) ELSE Float100
        mana_percent == IF ~Falsy(current_mana) /\ ~Falsy(mmana)
                        THEN get_percent(mmana, current_mana) ELSE Float100
    IN  IF is_on_cooldown THEN <<>>
        ELSE IF mana_restore.enabled /\ FLess(mana_percent, mana_restore.threshold)
             THEN <<"mana">>
        ELSE IF critical_heal.enabled /\ FLess(hp_percent, critical_heal.threshold)
             THEN <<"critical">>
        ELSE <<>>

\* check_critical_and_mana_with_priority where a low HP ends the call also
\* when the critical slot is disabled.
check_critical_and_mana_slots_hp_blocks(mhp, mmana, current_hp, current_mana) ==
    LET hp_percent   == IF ~Falsy(current_hp) /\ ~Falsy(mhp)
                        THEN get_percent(mhp, current_hp) ELSE Float100
        mana_percent == IF ~Falsy(current_mana) /\ ~Falsy(mmana)
                        THEN get_percent(mmana, current_mana) ELSE Float100
    IN  IF is_on_cooldown THEN <<>>
        ELSE IF FLess(hp_percent, critical_heal.threshold)
             THEN (IF critical_heal.enabled THEN <<"critical">> ELSE <<>>)
        ELSE IF mana_restore.enabled /\ FLess(mana_percent, mana_restore.threshold)
             THEN <<"mana">>
        ELSE <<>>

\* check_critical_and_mana_with_priority that goes on to the normal heal
\* when neither the critical heal nor the mana restore fired.
check_critical_and_mana_slots_then_normal(mhp, mmana, current_hp, current_mana) ==
    LET hp_percent   == IF ~Falsy(current_hp) /\ ~Falsy(mhp)
                        THEN get_percent(mhp, current_hp) ELSE Float100
        mana_percent == IF ~Falsy(current_mana) /\ ~Falsy(mmana)
                        THEN get_percent(mmana, current_mana) ELSE Float100
    IN  IF is_on_cooldown THEN <<>>
        ELSE IF critical_heal.enabled /\ FLess(hp_percent, critical_heal.threshold)
             THEN <<"critical">>
        ELSE IF mana_restore.enabled /\ FLess(mana_percent, mana_restore.threshold)
             THEN <<"mana">>
        ELSE IF heal.enabled /\ FLess(hp_percent, heal.threshold)
             THEN <<"normal">>
        ELSE <<>>

\* The slots check_critical_and_mana_with_priority fires: <<"critical">>,
\* <<"mana">> or none.  mhp and mmana are the capacities after auto-detection
\* (healer.py:199-218).
check_critical_and_mana_slots(mhp, mmana, current_hp, current_mana) ==
    LET hp_percent   == IF ~Falsy(current_hp) /\ ~Falsy(mhp)
                        THEN get_percent(mhp, current_hp) ELSE Float100
        mana_percent == IF ~Falsy(current_mana) /\ ~Falsy(mmana)
                        THEN get_percent(mmana, current_mana) ELSE Float100
    IN  IF is_on_cooldown THEN <<>>
        ELSE IF critical_heal.enabled /\ FLess(hp_percent, critical_heal.threshold)
             THEN <<"critical">>
        ELSE IF mana_restore.enabled /\ FLess(mana_percent, mana_restore.threshold)
             THEN <<"mana">>
        ELSE <<>>

\* The hotkey press_key is called with when slot fires: the body of
\* _cast_heal and of the two inline mana branches.
HotkeyOf(slot) ==
    IF slot = "critical" THEN critical_heal.hotkey
    ELSE IF slot = "normal" THEN heal.hotkey
    ELSE mana_restore.hotkey

\* What the caller gets back: the tag of the heal the call returned after.
HealResult(slots) ==
    IF slots # <<>> /\ slots[1] \in {"critical", "normal"} THEN slots[1] ELSE "None"

ManaRestored(slots) == slots # <<>> /\ slots[1] = "mana"

\* The stamp where only _cast_heal writes last_cast_time.
StampOf_heal_only(slots, stamp) ==
    IF slots = <<>> \/ slots[1] = "mana" THEN last_cast_time ELSE stamp

\* A healer that stamps the clock at the end of every call.
StampOf_every_call(slots, stamp) == stamp

\* last_cast_time after the call: every branch that presses a key stamps the
\* clock it reads after the press.
StampOf(slots, stamp) == IF slots = <<>> THEN last_cast_time ELSE stamp

\* What press_key(key) may do (healer.py:221-231): TRUE when pyautogui
\* pressed the key, FALSE when it raised and press_key printed the error.
\* Either way press_key returns None.
Deliveries == BOOLEAN

\* A healer that stamps the cooldown only for a press that was delivered.
Stamping_if_delivered(slots, ok) == IF ok THEN slots ELSE <<>>

\* The slots whose press is followed by the stamp of last_cast_time
\* (healer.py:131-132, 173-174, 206-216): all that fired, whether the key
\* was delivered (ok) or not.
Stamping(slots, ok) == slots

\* The effects of one check_* call that fires slots: the presses at now + p,
\* delivered or not (ok), the stamp at now + d, and the record of the call.
Dispatch(op, hp, mana, mhp, mmana, slots, d, p, ok) ==
    /\ max_hp' = mhp
    /\ max_mana' = mmana
    /\ last_cast_time' = StampOf(Stamping(slots, ok), now + d)
    /\ now' = now + d
    /\ call' = [NoCall EXCEPT
                !.op = op, !.hp = hp, !.mana = mana,
                !.heal_result = HealResult(slots),
                !.mana_restored = ManaRestored(slots),
                !.keys = [i \in 1..Len(slots) |-> HotkeyOf(slots[i])],
                !.at = now,
                !.on_cooldown = is_on_cooldown,
                !.max_hp0 = max_hp, !.max_mana0 = max_mana,
                !.prev_press = last_press, !.prev_fire_at = last_fire_at]
    /\ last_press' = IF slots = <<>> THEN last_press ELSE now + p
    /\ last_fire_at' = IF slots = <<>> THEN last_fire_at ELSE now
    /\ env' = [env EXCEPT !.delivered = IF slots = <<>> THEN @ ELSE ok]
    /\ UNCHANGED <<heal, critical_heal, mana_restore, critical_is_potion>>
    /\ UNCHANGED <<eater, haste, skinner, workers>>
    /\ UNCHANGED orchestrator_vars

\* What the sink may do with the presses of a call that fires slots.
Outcomes(slots) == IF slots = <<>> THEN {TRUE} ELSE Deliveries

\* How long a call may take between its two reads of the clock: a call that
\* fires nothing reads it at most once, one that fires reads it again d ticks
\* later, having pressed the key p <= d ticks after the first read.
CallTimes(slots) == IF slots = <<>> THEN {0} ELSE 0..(MaxTime - now)

\* check_and_heal(current_hp) (healer.py:99-127).
check_and_heal(current_hp) ==
    LET mhp  == auto_detect_max(max_hp, current_hp)
        slots == check_and_heal_slots(mhp, current_hp)
    IN  \E d \in CallTimes(slots) : \E p \in 0..d : \E ok \in Outcomes(slots) :
            Dispatch("check_and_heal", current_hp, None, mhp, max_mana, slots, d, p,
                     ok)

\* check_and_restore_mana(current_mana) (healer.py:157-178).
check_and_restore_mana(current_mana) ==
    LET mmana == auto_detect_max(max_mana, current_mana)
        slots == check_and_restore_mana_slots(mmana, current_mana)
    IN  \E d \in CallTimes(slots) : \E p \in 0..d : \E ok \in Outcomes(slots) :
            Dispatch("check_and_restore_mana", None, current_mana, max_hp, mmana,
                     slots, d, p, ok)

\* check_critical_and_mana_with_priority(current_hp, current_mana)
\* (healer.py:180-218).
check_critical_and_mana_with_priority(current_hp, current_mana) ==
    LET mhp   == auto_detect_max(max_hp, current_hp)
        mmana == auto_detect_max(max_mana, current_mana)
        slots == check_critical_and_mana_slots(mhp, mmana, current_hp, current_mana)
    IN  \E d \in CallTimes(slots) : \E p \in 0..d : \E ok \in Outcomes(slots) :
            Dispatch("check_critical_and_mana_with_priority", current_hp,
                     current_mana, mhp, mmana, slots, d, p, ok)

\* set_max_hp(value) (healer.py:55-58).
set_max_hp(value) ==
    /\ max_hp' = IF value > 0 THEN value ELSE max_hp
    /\ call' = NoCall
    /\ UNCHANGED <<max_mana, heal, critical_heal, mana_restore, last_cast_time,
                   critical_is_potion, now, last_press, last_fire_at>>
    /\ UNCHANGED unit_vars
    /\ UNCHANGED orchestrator_vars

\* set_max_mana(value) (healer.py:60-63).
set_max_mana(value) ==
    /\ max_mana' = IF value > 0 THEN value ELSE max_mana
    /\ call' = NoCall
    /\ UNCHANGED <<max_hp, heal, critical_heal, mana_restore, last_cast_time,
                   critical_is_potion, now, last_press, last_fire_at>>
    /\ UNCHANGED unit_vars
    /\ UNCHANGED orchestrator_vars

\* toggle_heal(enabled) (healer.py:136-137).
toggle_heal(enabled) ==
    /\ heal' = [heal EXCEPT !.enabled = enabled]
    /\ call' = NoCall
    /\ UNCHANGED <<max_hp, max_mana, critical_heal, mana_restore, last_cast_time,
                   critical_is_potion, now, last_press, last_fire_at>>
    /\ UNCHANGED unit_vars
    /\ UNCHANGED orchestrator_vars

\* toggle_critical_heal(enabled) (healer.py:139-140).
toggle_critical_heal(enabled) ==
    /\ critical_heal' = [critical_heal EXCEPT !.enabled = enabled]
    /\ call' = NoCall
    /\ UNCHANGED <<max_hp, max_mana, heal, mana_restore, last_cast_time,
                   critical_is_potion, now, last_press, last_fire_at>>
    /\ UNCHANGED unit_vars
    /\ UNCHANGED orchestrator_vars

\* toggle_mana_restore(enabled) (healer.py:142-143).
toggle_mana_restore(enabled) ==
    /\ mana_restore' = [mana_restore EXCEPT !.enabled = enabled]
    /\ call' = NoCall
    /\ UNCHANGED <<max_hp, max_mana, heal, critical_heal, last_cast_time,
                   critical_is_potion, now, last_press, last_fire_at>>
    /\ UNCHANGED unit_vars
    /\ UNCHANGED orchestrator_vars

\* The record of a call of a threshold setter.
SetterCall(op, value) == [NoCall EXCEPT !.op = op, !.value = value, !.at = now]

\* A setter that clamps the value into the range instead of ignoring it.
set_heal_threshold_clamps(value) ==
    /\ heal' = [heal EXCEPT !.threshold =
                   IF value < MinThreshold THEN MinThreshold
                   ELSE IF value > MaxThreshold THEN MaxThreshold ELSE value]
    /\ call' = SetterCall("set_heal_threshold", value)
    /\ UNCHANGED <<max_hp, max_mana, critical_heal, mana_restore, last_cast_time,
                   critical_is_potion, now, last_press, last_fire_at>>
    /\ UNCHANGED unit_vars
    /\ UNCHANGED orchestrator_vars

\* set_heal_threshold(value) (healer.py:145-147).
set_heal_threshold(value) ==
    /\ heal' = IF MinThreshold <= value /\ value <= MaxThreshold
               THEN [heal EXCEPT !.threshold = value] ELSE heal
    /\ call' = SetterCall("set_heal_threshold", value)
    /\ UNCHANGED <<max_hp, max_mana, critical_heal, mana_restore, last_cast_time,
                   critical_is_potion, now, last_press, last_fire_at>>
    /\ UNCHANGED unit_vars
    /\ UNCHANGED orchestrator_vars

\* set_critical_threshold(value) (healer.py:149-151).
set_critical_threshold(value) ==
    /\ critical_heal' = IF MinThreshold <= value /\ value <= MaxThreshold
                        THEN [critical_heal EXCEPT !.threshold = value]
                        ELSE critical_heal
    /\ call' = SetterCall("set_critical_threshold", value)
    /\ UNCHANGED <<max_hp, max_mana, heal, mana_restore, last_cast_time,
                   critical_is_potion, now, last_press, last_fire_at>>
    /\ UNCHANGED unit_vars
    /\ UNCHANGED orchestrator_vars

\* set_mana_threshold(value) (healer.py:153-155).
set_mana_threshold(value) ==
    /\ mana_restore' = IF MinThreshold <= value /\ value <= MaxThreshold
                       THEN [mana_restore EXCEPT !.threshold = value]
                       ELSE mana_restore
    /\ call' = SetterCall("set_mana_threshold", value)
    /\ UNCHANGED <<max_hp, max_mana, heal, critical_heal, last_cast_time,
                   critical_is_potion, now, last_press, last_fire_at>>
    /\ UNCHANGED unit_vars
    /\ UNCHANGED orchestrator_vars

\* Time passes between two operations.
Tick ==
    /\ now < MaxTime
    /\ now' = now + 1
    /\ call' = NoCall
    /\ UNCHANGED <<max_hp, max_mana, heal, critical_heal, mana_restore,
                   last_cast_time, critical_is_potion, last_press,
                   last_fire_at>>
    /\ UNCHANGED unit_vars
    /\ UNCHANGED orchestrator_vars

\* The readings the perception source hands over in the sequential
\* specification: nothing, zero, and a value that is below every default
\* threshold of a capacity of 100.
Readings == {None, 0, 40}
\* The capacities set by hand.
Capacities == {0, 100}

\* The methods of the healer called one after the other; run_loop is not
\* started.
Next ==
  /\ UNCHANGED loop
  /\
    \/ \E hp \in Readings : check_and_heal(hp)
    \/ \E mana \in Readings : check_and_restore_mana(mana)
    \/ \E hp \in Readings, mana \in Readings :
          check_critical_and_mana_with_priority(hp, mana)
    \/ \E v \in Capacities : set_max_hp(v)
    \/ \E v \in Capacities : set_max_mana(v)
    \/ \E b \in BOOLEAN : toggle_heal(b)
    \/ \E b \in BOOLEAN : toggle_critical_heal(b)
    \/ \E b \in BOOLEAN : toggle_mana_restore(b)
    \/ Tick

Spec == Init /\ [][Next]_vars

(***************************************************************************)
(* The single-call laws: one check_* call from any configuration the       *)
(* setters can produce.  One slot's threshold runs over the whole range    *)
(* the setters accept while the others keep their defaults, every          *)
(* combination of enabled flags is taken, the cooldown is ready or has     *)
(* just begun, and the readings lie at, just below and just above each     *)
(* threshold of the capacity.                                              *)
(***************************************************************************)
\* The capacities of the single-call laws: one of which every percent is a
\* whole reading, one of which every second percent is.
LawCapacities == {100, 150}

LawInit ==
    \E cap \in LawCapacities, t \in MinThreshold..MaxThreshold,
       s \in {"normal", "critical", "mana"},
       eh \in BOOLEAN, ec \in BOOLEAN, em \in BOOLEAN, cast \in {0, MaxTime} :
        /\ max_hp = cap
        /\ max_mana = cap
        /\ heal = HealConfig(eh, IF s = "normal" THEN t ELSE 75, "F1")
        /\ critical_heal = HealConfig(ec, IF s = "critical" THEN t ELSE 50, "F2")
        /\ mana_restore = HealConfig(em, IF s = "mana" THEN t ELSE 60, "F4")
        /\ last_cast_time = cast
        /\ now = MaxTime
        /\ call = NoCall
        /\ last_press = IF cast = 0 THEN None ELSE cast
        /\ last_fire_at = IF cast = 0 THEN None ELSE cast
        /\ eater = AutoEater
        /\ haste = AutoHaste
        /\ skinner = AutoSkinner
        /\ workers = <<>>
        /\ bot = TibiaBot
        /\ reader = HPManaReader
        /\ loop = NoLoop
        /\ critical_is_potion = FALSE
        /\ env = NoEvent
        /\ config = UserConfig

\* The readings at the threshold t of capacity max (the greatest reading
\* that is at most t percent of it), one below and one above.
AtThreshold(max, t) ==
    {(max * t) \div 100 - 1, (max * t) \div 100, (max * t) \div 100 + 1}

LawHpReadings ==
    {None, 0, max_hp} \cup AtThreshold(max_hp, heal.threshold)
                      \cup AtThreshold(max_hp, critical_heal.threshold)

LawManaReadings ==
    {None, 0, max_mana} \cup AtThreshold(max_mana, mana_restore.threshold)

LawNext ==
    /\ call.op = "none"
    /\ UNCHANGED loop
    /\ \/ \E hp \in LawHpReadings : check_and_heal(hp)
       \/ \E mana \in LawManaReadings : check_and_restore_mana(mana)
       \/ \E hp \in LawHpReadings, mana \in LawManaReadings :
             check_critical_and_mana_with_priority(hp, mana)

LawSpec == LawInit /\ [][LawNext]_vars

(***************************************************************************)
(* The settings of the healer: the threshold setters and the toggles,      *)
(* called in any order with values inside and outside the range.           *)
(***************************************************************************)
\* The values handed to the setters.
ThresholdValues == {0, 1, 99, 100}

ConfigNext ==
  /\ UNCHANGED loop
  /\
    \/ \E v \in ThresholdValues : set_heal_threshold(v)
    \/ \E v \in ThresholdValues : set_critical_threshold(v)
    \/ \E v \in ThresholdValues : set_mana_threshold(v)
    \/ \E b \in BOOLEAN : toggle_heal(b)
    \/ \E b \in BOOLEAN : toggle_critical_heal(b)
    \/ \E b \in BOOLEAN : toggle_mana_restore(b)

ConfigSpec == Init /\ [][ConfigNext]_vars

(***************************************************************************)
(* The timer units: AutoEater (eater.py), AutoHaste (haste.py) and the     *)
(* click-driven AutoSkinner (skinner.py).  Their delays are drawn by       *)
(* random.uniform; the model draws every whole number of ticks of the      *)
(* interval.                                                               *)
(***************************************************************************)
\* random.uniform(1.0, 6.0) of _eat_now (eater.py:75), in seconds.
EatJitterMin == 1
EatJitterMax == 6
\* random.uniform(31.0, 33.0) of toggle and _cast_now (haste.py:16, 37).
HasteDelayMin == 31
HasteDelayMax == 33
\* The lower end of random.uniform(0.2, 0.4) (eater.py:67, skinner.py:51), in
\* tenths of a second.
SleepMinTenths == 2

\* AutoEater.FOODS (eater.py:23-26): the duration of one item, in seconds.
FOODS == [fire_mushroom |-> 432, brown_mushroom |-> 264]

\* The draws of random.uniform(lo, hi), lo and hi in seconds, in ticks.
Uniform(lo, hi) == (lo * TicksPerSecond)..(hi * TicksPerSecond)

\* time.sleep returns no earlier than the delay asked for, which is at least
\* 0.2 s: the clock read after it is later by the least whole number of
\* ticks that is no less, or by one tick more.
SleepTicksMin == (SleepMinTenths * TicksPerSecond + 9) \div 10
SleepTicks == SleepTicksMin..(SleepTicksMin + 1)

\* The time press_key may take before the clock is read again.
PressTicks == 0..1

\* The healer's fields and what is observed of its presses.
healer_vars == <<max_hp, max_mana, heal, critical_heal, mana_restore,
                 last_cast_time, critical_is_potion, last_press, last_fire_at>>

\* The record of a call of one of the units: the keys it pressed, the clock
\* it began at, the timer it found and the clock it stamped the new one from.
UnitCall(op, keys, timer0, stamp) ==
    [NoCall EXCEPT !.op = op, !.keys = keys, !.at = now, !.timer0 = timer0,
                   !.stamp = stamp]

\* set_food_type that waits out the timer of the old food.
set_food_type_keeps_timer(food_key) ==
    /\ eater' = IF food_key \in DOMAIN FOODS
                THEN [eater EXCEPT !.current_food = food_key]
                ELSE eater
    /\ call' = [UnitCall("set_food_type", <<>>, eater.next_eat_time, None)
                  EXCEPT !.key = food_key]
    /\ UNCHANGED <<now, haste, skinner, workers, env>>
    /\ UNCHANGED healer_vars
    /\ UNCHANGED orchestrator_vars

\* AutoEater.set_food_type(food_key) (eater.py:35-42).
set_food_type(food_key) ==
    /\ eater' = IF food_key \in DOMAIN FOODS
                THEN [eater EXCEPT !.current_food = food_key, !.next_eat_time = 0]
                ELSE eater
    /\ call' = [UnitCall("set_food_type", <<>>, eater.next_eat_time, None)
                  EXCEPT !.key = food_key]
    /\ UNCHANGED <<now, haste, skinner, workers, env>>
    /\ UNCHANGED healer_vars
    /\ UNCHANGED orchestrator_vars

\* The flag b as the record of a call holds it.
Flag(b) == IF b THEN 1 ELSE 0

\* AutoEater.toggle with the timer reset outside the test of enabled.
eater_toggle_always_resets(enabled) ==
    /\ eater' = [eater EXCEPT !.enabled = enabled, !.next_eat_time = 0]
    /\ call' = [UnitCall("eater_toggle", <<>>, eater.next_eat_time, None)
                  EXCEPT !.key = IF enabled THEN "True" ELSE "False",
                         !.value = Flag(eater.enabled)]
    /\ UNCHANGED <<now, haste, skinner, workers, env>>
    /\ UNCHANGED healer_vars
    /\ UNCHANGED orchestrator_vars

\* AutoEater.toggle(enabled) (eater.py:44-52).  The record keeps the flag
\* the call found.
eater_toggle(enabled) ==
    /\ eater' = [eater EXCEPT !.enabled = enabled,
                              !.next_eat_time = IF enabled THEN 0 ELSE @]
    /\ call' = [UnitCall("eater_toggle", <<>>, eater.next_eat_time, None)
                  EXCEPT !.key = IF enabled THEN "True" ELSE "False",
                         !.value = Flag(eater.enabled)]
    /\ UNCHANGED <<now, haste, skinner, workers, env>>
    /\ UNCHANGED healer_vars
    /\ UNCHANGED orchestrator_vars

\* AutoEater._eat_now (eater.py:63-77): the eater after two presses, when the
\* clock read after them is stamp and the jitter drawn is jitter ticks.
eat_now(e, stamp, jitter) ==
    [e EXCEPT !.next_eat_time =
                  stamp + FOODS[e.current_food] * 2 * TicksPerSecond + jitter]

\* _eat_now with a single press.
eat_now_keys_once(e) == <<e.hotkey>>

\* The keys _eat_now presses (eater.py:66-68).
eat_now_keys(e) == <<e.hotkey, e.hotkey>>

\* check_and_eat without the test of enabled.
eat_due_timer_only(e, t) == t >= e.next_eat_time

\* The test of check_and_eat (eater.py:56-60) at clock t.
eat_due(e, t) == e.enabled /\ t >= e.next_eat_time

\* AutoEater.check_and_eat (eater.py:54-61).
check_and_eat ==
    /\ IF eat_due(eater, now)
       THEN \E s \in SleepTicks, j \in Uniform(EatJitterMin, EatJitterMax) :
              /\ eater' = eat_now(eater, now + s, j)
              /\ now' = now + s
              /\ call' = UnitCall("check_and_eat", eat_now_keys(eater),
                                  eater.next_eat_time, now + s)
       ELSE /\ call' = UnitCall("check_and_eat", <<>>, eater.next_eat_time, None)
            /\ UNCHANGED <<eater, now>>
    /\ UNCHANGED <<haste, skinner, workers, env>>
    /\ UNCHANGED healer_vars
    /\ UNCHANGED orchestrator_vars

\* The clock at which the haste unit became enabled, when its flag goes from
\* was to enabled at clock now.
EnabledAt(e, was, enabled) ==
    [e EXCEPT !.enabled_at = IF ~enabled THEN None
                             ELSE IF was THEN @ ELSE now]

\* AutoHaste.toggle that makes the unit eligible at once, as the eater's does.
haste_toggle_immediate(enabled) ==
    /\ haste' = [haste EXCEPT !.enabled = enabled,
                              !.next_cast_time = IF enabled THEN 0 ELSE @]
    /\ call' = [UnitCall("haste_toggle", <<>>, haste.next_cast_time, now)
                  EXCEPT !.key = IF enabled THEN "True" ELSE "False"]
    /\ env' = EnabledAt(env, haste.enabled, enabled)
    /\ UNCHANGED <<now, eater, skinner, workers>>
    /\ UNCHANGED healer_vars
    /\ UNCHANGED orchestrator_vars

\* AutoHaste.toggle(enabled) (haste.py:12-22).
haste_toggle(enabled) ==
    /\ IF enabled
       THEN \E delay \in Uniform(HasteDelayMin, HasteDelayMax) :
              haste' = [haste EXCEPT !.enabled = TRUE,
                                     !.next_cast_time = now + delay]
       ELSE haste' = [haste EXCEPT !.enabled = FALSE]
    /\ call' = [UnitCall("haste_toggle", <<>>, haste.next_cast_time, now)
                  EXCEPT !.key = IF enabled THEN "True" ELSE "False"]
    /\ env' = EnabledAt(env, haste.enabled, enabled)
    /\ UNCHANGED <<now, eater, skinner, workers>>
    /\ UNCHANGED healer_vars
    /\ UNCHANGED orchestrator_vars

\* _cast_now scheduling from the deadline that ran out, not from the clock.
cast_now_from_deadline(h, stamp, delay) ==
    [h EXCEPT !.next_cast_time = h.next_cast_time + delay]

\* AutoHaste._cast_now (haste.py:32-38): the unit after the press, when the
\* clock read after it is stamp and the delay drawn is delay ticks.
cast_now(h, stamp, delay) == [h EXCEPT !.next_cast_time = stamp + delay]

\* The keys _cast_now presses (haste.py:34).
cast_now_keys(h) == <<h.hotkey>>

\* The test of check_and_cast (haste.py:26-29) at clock t.
cast_due(h, t) == h.enabled /\ t >= h.next_cast_time

\* AutoHaste.check_and_cast (haste.py:24-30).
check_and_cast ==
    /\ IF cast_due(haste, now)
       THEN \E d \in PressTicks, delay \in Uniform(HasteDelayMin, HasteDelayMax) :
              /\ haste' = cast_now(haste, now + d, delay)
              /\ now' = now + d
              /\ call' = [UnitCall("check_and_cast", cast_now_keys(haste),
                                   haste.next_cast_time, now + d)
                            EXCEPT !.prev_press = env.cast_at]
              /\ env' = [env EXCEPT !.cast_at = now + d]
       ELSE /\ call' = UnitCall("check_and_cast", <<>>, haste.next_cast_time, None)
            /\ UNCHANGED <<haste, now, env>>
    /\ UNCHANGED <<eater, skinner, workers>>
    /\ UNCHANGED healer_vars
    /\ UNCHANGED orchestrator_vars

\* The threads of _perform_skinning that may be in flight at once.
MaxWorkers == 2

\* start without the test of _running: every call creates a listener.
starts_listener_always(sk) == TRUE

\* The test of start (skinner.py:22).
starts_listener(sk) == ~sk.running

\* The body of AutoSkinner.start (skinner.py:22-25): a listener is created,
\* subscribed to the input source and held in place of the one held before.
Listen ==
    IF starts_listener(skinner)
    THEN /\ skinner' = [skinner EXCEPT !.listener = TRUE, !.running = TRUE]
         /\ env' = [env EXCEPT !.listeners = @ + 1]
    ELSE UNCHANGED <<skinner, env>>

\* The body of AutoSkinner.stop (skinner.py:30-33): the listener held, if any,
\* is unsubscribed and dropped.
Unlisten ==
    /\ skinner' = [skinner EXCEPT !.listener = FALSE, !.running = FALSE]
    /\ env' = [env EXCEPT !.listeners = IF skinner.listener THEN @ - 1 ELSE @]

\* AutoSkinner.start (skinner.py:20-26).  The record keeps the _running the
\* call found.
skinner_start ==
    /\ Listen
    /\ call' = [UnitCall("skinner_start", <<>>, None, None)
                  EXCEPT !.value = Flag(skinner.running)]
    /\ UNCHANGED <<now, eater, haste, workers>>
    /\ UNCHANGED healer_vars
    /\ UNCHANGED orchestrator_vars

\* AutoSkinner.stop (skinner.py:28-34).
skinner_stop ==
    /\ Unlisten
    /\ call' = [UnitCall("skinner_stop", <<>>, None, None)
                  EXCEPT !.value = Flag(skinner.running)]
    /\ UNCHANGED <<now, eater, haste, workers>>
    /\ UNCHANGED healer_vars
    /\ UNCHANGED orchestrator_vars

\* toggle that attaches the listener when enabling and detaches it when
\* disabling.
skinner_toggle_resubscribes(enabled) ==
    /\ IF enabled
       THEN /\ skinner' = [skinner EXCEPT !.enabled = TRUE, !.listener = TRUE,
                                          !.running = TRUE]
            /\ env' = [env EXCEPT !.listeners = IF skinner.running THEN @ ELSE @ + 1]
       ELSE /\ skinner' = [skinner EXCEPT !.enabled = FALSE, !.listener = FALSE,
                                          !.running = FALSE]
            /\ env' = [env EXCEPT !.listeners = IF skinner.listener THEN @ - 1 ELSE @]
    /\ call' = [UnitCall("skinner_toggle", <<>>, None, None)
                  EXCEPT !.key = IF enabled THEN "True" ELSE "False",
                         !.value = Flag(skinner.enabled)]
    /\ UNCHANGED <<now, eater, haste, workers>>
    /\ UNCHANGED healer_vars
    /\ UNCHANGED orchestrator_vars

\* AutoSkinner.toggle(enabled) (skinner.py:36-40).  The record keeps the flag
\* the call found.
skinner_toggle(enabled) ==
    /\ skinner' = [skinner EXCEPT !.enabled = enabled]
    /\ call' = [UnitCall("skinner_toggle", <<>>, None, None)
                  EXCEPT !.key = IF enabled THEN "True" ELSE "False",
                         !.value = Flag(skinner.enabled)]
    /\ UNCHANGED <<now, eater, haste, workers, env>>
    /\ UNCHANGED healer_vars
    /\ UNCHANGED orchestrator_vars

\* mouse.Button, the buttons the listener reports.
Buttons == {"left", "right", "middle"}

\* _on_click without the test of pressed: a release triggers as well.
click_triggers_on_release(sk, button, pressed) == sk.enabled /\ button = "right"

\* The test of _on_click (skinner.py:45).
click_triggers(sk, button, pressed) == sk.enabled /\ pressed /\ button = "right"

\* AutoSkinner._on_click(x, y, button, pressed) (skinner.py:42-47), called by
\* a subscribed listener: it starts a thread of _perform_skinning and
\* returns.  env.clicks counts the clicks that started one.
on_click(button, pressed) ==
    /\ env.listeners > 0
    /\ IF click_triggers(skinner, button, pressed)
       THEN /\ Len(workers) < MaxWorkers
            /\ workers' = Append(workers, now)
            /\ env' = [env EXCEPT !.clicks = @ + 1]
       ELSE UNCHANGED <<workers, env>>
    /\ call' = [UnitCall("on_click", <<>>, None, None)
                  EXCEPT !.key = button, !.value = Flag(pressed)]
    /\ UNCHANGED <<now, eater, haste, skinner>>
    /\ UNCHANGED healer_vars
    /\ UNCHANGED orchestrator_vars

\* The sequence w without its i-th element.
Without(w, i) == [k \in 1..(Len(w) - 1) |-> IF k < i THEN w[k] ELSE w[k + 1]]

\* _perform_skinning that gives up when the unit was disabled or its
\* listener stopped during the delay.
skinning_keys_cancellable(sk, started) ==
    IF sk.enabled /\ sk.running THEN <<sk.hotkey>> ELSE <<>>

\* The keys the thread started at instant started presses when its sleep is
\* over (skinner.py:54): the hotkey the unit has then.
skinning_keys(sk, started) == <<sk.hotkey>>

\* AutoSkinner._perform_skinning (skinner.py:49-55), the i-th thread in
\* flight: its sleep is over and it presses the hotkey the unit has now.
\* env.presses counts the presses of the threads.
perform_skinning(i) ==
    /\ now >= workers[i] + SleepTicksMin
    /\ workers' = Without(workers, i)
    /\ env' = [env EXCEPT !.presses =
                  @ + Len(skinning_keys(skinner, workers[i]))]
    /\ call' = UnitCall("perform_skinning", skinning_keys(skinner, workers[i]),
                        workers[i], now)
    /\ UNCHANGED <<now, eater, haste, skinner>>
    /\ UNCHANGED healer_vars
    /\ UNCHANGED orchestrator_vars

\* How many timers of each unit the clock is followed through.
Rounds == 2
\* The latest deadline of the haste timer, and of the eater's, that the clock
\* is moved to.
CastHorizon == MaxTime + Rounds * (HasteDelayMax * TicksPerSecond + 1)
EatHorizon ==
    MaxTime + Rounds * ((FOODS.fire_mushroom * 2 + EatJitterMax) * TicksPerSecond
                        + SleepTicksMin + 1)

\* The instants around t.
Around(t) == {t - 1, t, t + 1}

\* The instants at which a timer of the units runs out or a thread's sleep
\* ends, with the tick before and after.
Deadlines ==
    {t \in Around(eater.next_eat_time) : t <= EatHorizon}
      \cup {t \in Around(haste.next_cast_time) : t <= CastHorizon}
      \cup {workers[i] + SleepTicksMin : i \in 1..Len(workers)}

\* Time passes until the instant t.
TickTo(t) ==
    /\ t > now
    /\ now' = t
    /\ call' = NoCall
    /\ UNCHANGED <<eater, haste, skinner, workers, env>>
    /\ UNCHANGED healer_vars
    /\ UNCHANGED orchestrator_vars

\* The healer is as its constructor left it.
HealerUnused ==
    /\ max_hp = None /\ max_mana = None
    /\ heal = HealConfig(TRUE, 75, "F1")
    /\ critical_heal = HealConfig(TRUE, 50, "F2")
    /\ mana_restore = HealConfig(TRUE, 60, "F4")
    /\ last_cast_time = 0 /\ last_press = None /\ last_fire_at = None

\* The units share no field, only the clock and the key sink: the
\* specification follows one unit from the state the constructors leave,
\* the others and what they act on being untouched.
\* Meals forced by a reset of the timer, and clicks, are followed during the
\* first Horizon ticks; later the clock moves from deadline to deadline.
EaterNext ==
    /\ HealerUnused
    /\ haste = AutoHaste /\ skinner = AutoSkinner /\ workers = <<>>
    /\ env = NoEvent
    /\ \/ \E key \in DOMAIN FOODS \cup {"ham"} : set_food_type(key)
       \/ \E b \in BOOLEAN : eater_toggle(b)
       \/ /\ check_and_eat
          /\ now' = now \/ eater.next_eat_time # 0 \/ now' <= MaxTime

HasteNext ==
    /\ HealerUnused
    /\ eater = AutoEater /\ skinner = AutoSkinner /\ workers = <<>>
    /\ [env EXCEPT !.enabled_at = None, !.cast_at = None] = NoEvent
    /\ \/ \E b \in BOOLEAN : haste_toggle(b)
       \/ check_and_cast

SkinnerNext ==
    /\ HealerUnused
    /\ eater = AutoEater /\ haste = AutoHaste
    /\ \/ skinner_start
       \/ skinner_stop
       \/ \E b \in BOOLEAN : skinner_toggle(b)
       \/ /\ now < MaxTime
          /\ \E button \in Buttons, pressed \in BOOLEAN : on_click(button, pressed)
       \/ \E i \in 1..Len(workers) : perform_skinning(i)

\* A thread of _perform_skinning whose sleep is over runs.
Skins == UNCHANGED loop /\ \E i \in 1..Len(workers) : perform_skinning(i)

\* Time passes until a timer runs out or a sleep ends.
Passes == UNCHANGED loop /\ \E t \in Deadlines : TickTo(t)

\* The two heal slots of the healer, beside the units.
HealerNext ==
    /\ eater = AutoEater /\ haste = AutoHaste
    /\ skinner = AutoSkinner /\ workers = <<>>
    /\ [env EXCEPT !.delivered = TRUE] = NoEvent
    /\ \/ \E v \in Capacities : set_max_hp(v)
       \/ \E b \in BOOLEAN : toggle_heal(b)
       \/ \E b \in BOOLEAN : toggle_critical_heal(b)
       \/ \E hp \in Readings : check_and_heal(hp)
       \/ Tick

UnitNext ==
  /\ UNCHANGED loop
  /\
    \/ EaterNext
    \/ HasteNext
    \/ SkinnerNext
    \/ HealerNext
    \/ \E t \in Deadlines : TickTo(t)

UnitSpec == Init /\ [][UnitNext]_vars

\* The units under the scheduling the threads get: the clock does not stop
\* short of a pending deadline, and a thread whose sleep is over is run.
UnitLiveSpec == UnitSpec /\ WF_vars(Passes) /\ WF_vars(Skins)

(***************************************************************************)
(* The vocabulary of the laws.  A percentage is that of the specification: *)
(* 100 when the capacity is unset or the reading is zero or missing, the   *)
(* exact ratio otherwise; it is compared in exact integer arithmetic.      *)
(***************************************************************************)
\* The reading is known and its exact percentage of max is below t.
Breached(current, max, t) ==
    ~Falsy(current) /\ ~Falsy(max) /\ current * 100 < max * t

\* The reading is known and is exactly t percent of max.
ExactlyAt(current, max, t) ==
    ~Falsy(current) /\ ~Falsy(max) /\ current * 100 = max * t

IsHeal == call.op = "check_and_heal"
IsMana == call.op = "check_and_restore_mana"
IsPotion == call.op = "check_critical_and_mana_with_priority"
Ready == ~call.on_cooldown
Fired == call.keys # <<>>

(***************************************************************************)
(* C1.  Cooldown law: any two presses of a heal-family key are at least    *)
(* COOLDOWN apart, and a call that begins less than COOLDOWN after the     *)
(* beginning of the last call that pressed a key presses nothing.          *)
(***************************************************************************)
C1_CooldownLaw ==
    (call.op # "none" /\ Fired) =>
        /\ call.prev_press # None => last_press - call.prev_press >= CooldownTicks
        /\ call.prev_fire_at # None => call.at - call.prev_fire_at >= CooldownTicks

\* A mana restore pressed exactly COOLDOWN after the previous press.
C1_Witness ==
    /\ IsMana /\ Fired
    /\ call.prev_press # None
    /\ last_press - call.prev_press = CooldownTicks

(***************************************************************************)
(* C2.  Critical priority law: in check_critical_and_mana_with_priority,   *)
(* with both slots enabled and the cooldown ready, when the HP percentage  *)
(* is below the critical threshold and the mana percentage below the mana  *)
(* threshold the call returns ("critical", False) and presses the critical *)
(* hotkey alone.                                                           *)
(***************************************************************************)
C2_BothBreached ==
    /\ IsPotion /\ Ready
    /\ critical_heal.enabled /\ mana_restore.enabled
    /\ Breached(call.hp, max_hp, critical_heal.threshold)
    /\ Breached(call.mana, max_mana, mana_restore.threshold)

C2_CriticalPriority ==
    C2_BothBreached =>
        /\ call.heal_result = "critical"
        /\ ~call.mana_restored
        /\ call.keys = <<critical_heal.hotkey>>

C2_Witness == C2_BothBreached /\ call.heal_result = "critical"

(***************************************************************************)
(* C3.  Critical over normal: check_and_heal with the cooldown ready, both *)
(* heal slots enabled and the HP percentage below both thresholds returns  *)
(* "critical" and presses the critical hotkey once, and no other key.      *)
(***************************************************************************)
C3_BelowBoth ==
    /\ IsHeal /\ Ready
    /\ critical_heal.enabled /\ heal.enabled
    /\ Breached(call.hp, max_hp, critical_heal.threshold)
    /\ Breached(call.hp, max_hp, heal.threshold)

C3_CriticalOverNormal ==
    C3_BelowBoth =>
        /\ call.heal_result = "critical"
        /\ call.keys = <<critical_heal.hotkey>>
        /\ \A i \in 1..Len(call.keys) : call.keys[i] # heal.hotkey

C3_Witness == C3_BelowBoth /\ call.heal_result = "critical"

(***************************************************************************)
(* C4.  Strict inequality law: a reading that is exactly the threshold's   *)
(* percentage of the capacity does not fire the slot of that threshold,    *)
(* and the (known) reading one unit lower fires it when the slot is        *)
(* enabled, the cooldown ready and no slot of higher priority fires.       *)
(***************************************************************************)
C4_ExactDoesNotFire ==
    /\ (IsHeal \/ IsPotion) /\ ExactlyAt(call.hp, max_hp, critical_heal.threshold)
         => call.heal_result # "critical"
    /\ IsHeal /\ ExactlyAt(call.hp, max_hp, heal.threshold)
         => call.heal_result # "normal"
    /\ (IsMana \/ IsPotion) /\ ExactlyAt(call.mana, max_mana, mana_restore.threshold)
         => ~call.mana_restored

C4_OneLowerFires ==
    /\ ( /\ (IsHeal \/ IsPotion) /\ Ready /\ critical_heal.enabled
         /\ ~Falsy(call.hp)
         /\ ExactlyAt(call.hp + 1, max_hp, critical_heal.threshold) )
         => call.heal_result = "critical"
    /\ ( /\ IsHeal /\ Ready /\ heal.enabled
         /\ ~Falsy(call.hp)
         /\ ExactlyAt(call.hp + 1, max_hp, heal.threshold)
         /\ ~(critical_heal.enabled
              /\ Breached(call.hp, max_hp, critical_heal.threshold)) )
         => call.heal_result = "normal"
    /\ ( /\ (IsMana \/ IsPotion) /\ Ready /\ mana_restore.enabled
         /\ ~Falsy(call.mana)
         /\ ExactlyAt(call.mana + 1, max_mana, mana_restore.threshold)
         /\ call.heal_result = "None" )
         => call.mana_restored

C4_StrictInequality == C4_ExactDoesNotFire /\ C4_OneLowerFires

(***************************************************************************)
(* C5.  Heal trigger law: for every known current_hp with                  *)
(* current_hp < max_hp * threshold / 100, the slot enabled and the         *)
(* cooldown ready, check_and_heal returns the tag of the slot (the         *)
(* critical one when both thresholds match, the normal one when only the   *)
(* normal threshold does) and presses that slot's hotkey once.             *)
(***************************************************************************)
C5_HealTrigger ==
    /\ ( /\ IsHeal /\ Ready /\ critical_heal.enabled
         /\ Breached(call.hp, max_hp, critical_heal.threshold) )
         => (call.heal_result = "critical" /\ call.keys = <<critical_heal.hotkey>>)
    /\ ( /\ IsHeal /\ Ready /\ heal.enabled
         /\ Breached(call.hp, max_hp, heal.threshold)
         /\ ~(critical_heal.enabled
              /\ Breached(call.hp, max_hp, critical_heal.threshold)) )
         => (call.heal_result = "normal" /\ call.keys = <<heal.hotkey>>)

(***************************************************************************)
(* C6.  At most one action per evaluation: no check_* call presses more    *)
(* than one key.                                                           *)
(***************************************************************************)
C6_AtMostOneKey == Len(call.keys) <= 1

\* A potion-mode call that found the critical and the mana slot both
\* breached and enabled, and pressed one key.
C6_Witness == C2_BothBreached /\ Len(call.keys) = 1

(***************************************************************************)
(* C7.  Mana restore law: check_and_restore_mana returns True and presses  *)
(* the mana hotkey once if and only if the slot is enabled, max_mana is    *)
(* set, the cooldown is ready and the mana percentage is strictly below    *)
(* the threshold; otherwise it returns False and presses nothing.          *)
(***************************************************************************)
C7_Due ==
    /\ mana_restore.enabled
    /\ Ready
    /\ Breached(call.mana, max_mana, mana_restore.threshold)

C7_ManaRestoreLaw ==
    IsMana =>
        /\ C7_Due => (call.mana_restored /\ call.keys = <<mana_restore.hotkey>>)
        /\ ~C7_Due => (~call.mana_restored /\ call.keys = <<>>)

(***************************************************************************)
(* C8.  Slot independence: a disabled slot never suppresses an enabled     *)
(* one.  With critical disabled and HP below both thresholds               *)
(* check_and_heal fires the normal heal; in the potion-mode call a         *)
(* breached mana slot fires whatever the HP when critical is disabled, a   *)
(* breached critical slot fires when mana is disabled, and nothing fires   *)
(* when both are disabled.                                                 *)
(***************************************************************************)
C8_NormalCovers ==
    /\ IsHeal /\ Ready
    /\ ~critical_heal.enabled /\ heal.enabled
    /\ Breached(call.hp, max_hp, critical_heal.threshold)
    /\ Breached(call.hp, max_hp, heal.threshold)

C8_ManaAlone ==
    /\ IsPotion /\ Ready
    /\ ~critical_heal.enabled /\ mana_restore.enabled
    /\ Breached(call.mana, max_mana, mana_restore.threshold)

C8_CriticalAlone ==
    /\ IsPotion /\ Ready
    /\ critical_heal.enabled /\ ~mana_restore.enabled
    /\ Breached(call.hp, max_hp, critical_heal.threshold)

C8_SlotIndependence ==
    /\ C8_NormalCovers =>
         (call.heal_result = "normal" /\ call.keys = <<heal.hotkey>>)
    /\ C8_ManaAlone =>
         /\ call.heal_result = "None" /\ call.mana_restored
         /\ call.keys = <<mana_restore.hotkey>>
    /\ C8_CriticalAlone =>
         /\ call.heal_result = "critical" /\ ~call.mana_restored
         /\ call.keys = <<critical_heal.hotkey>>
    /\ (IsPotion /\ ~critical_heal.enabled /\ ~mana_restore.enabled) =>
         /\ call.heal_result = "None" /\ ~call.mana_restored
         /\ call.keys = <<>>

\* Mana restored by the potion-mode call while the HP is below the threshold
\* of the disabled critical slot.
C8_Witness ==
    /\ C8_ManaAlone
    /\ Breached(call.hp, max_hp, critical_heal.threshold)
    /\ call.mana_restored

(***************************************************************************)
(* C9.  Unready capacity: a check_and_heal call made while max_hp is unset *)
(* presses nothing and returns None; a zero or missing reading leaves      *)
(* max_hp unset and a positive one sets it to that reading.  The same      *)
(* holds of check_and_restore_mana and max_mana, which returns False.      *)
(***************************************************************************)
C9_UnreadyCapacity ==
    /\ (IsHeal /\ call.max_hp0 = None) =>
         /\ call.keys = <<>>
         /\ call.heal_result = "None"
         /\ max_hp = (IF Falsy(call.hp) THEN None ELSE call.hp)
    /\ (IsMana /\ call.max_mana0 = None) =>
         /\ call.keys = <<>>
         /\ ~call.mana_restored
         /\ max_mana = (IF Falsy(call.mana) THEN None ELSE call.mana)

\* A first positive reading, taken with the cooldown ready and both heal
\* slots enabled.
C9_Witness ==
    /\ IsHeal /\ call.max_hp0 = None /\ Ready
    /\ heal.enabled /\ critical_heal.enabled
    /\ ~Falsy(call.hp) /\ max_hp = call.hp

(***************************************************************************)
(* C10.  Unknown is safe: the percentage is 100.0 when the capacity is     *)
(* unset or the reading is zero or missing, and the float                  *)
(* (current / max) * 100 otherwise; a zero or missing reading never fires  *)
(* the slot it is the reading of, in any of the three check operations.    *)
(***************************************************************************)
C10_Percent(max, current) ==
    IF Falsy(max) \/ Falsy(current)
    THEN get_percent(max, current) = Float100
    ELSE get_percent(max, current) = FMul(FDiv(current, max), 100)

LoopOnly ==
    /\ call' = NoCall
    /\ UNCHANGED <<now, eater, haste, skinner, workers, env>>
    /\ UNCHANGED healer_vars
    /\ UNCHANGED orchestrator_vars

\* A read that failed: _parse_current_max returned None, or an exception was
\* caught (hp_mana_reader.py:108-133, 195-223).
Failed == <<None, None>>

\* HPManaReader.is_configured (hp_mana_reader.py:89-91).
is_configured(r) == r.hp_region /\ r.mana_region

\* A cache that a failed read empties.
read_cache_drops_failed(r, hp_result, mana_result) ==
    [r EXCEPT
       !.last_hp_current = hp_result[1],
       !.last_hp_max = hp_result[2],
       !.last_mana_current = mana_result[1],
       !.last_mana_max = mana_result[2]]

\* HPManaReader.read_hp and read_mana (hp_mana_reader.py:195-253): the cache
\* after the reads returned hp_result and mana_result.
read_cache(r, hp_result, mana_result) ==
    [r EXCEPT
       !.last_hp_current = IF hp_result = Failed THEN @ ELSE hp_result[1],
       !.last_hp_max = IF hp_result = Failed THEN @ ELSE hp_result[2],
       !.last_mana_current = IF mana_result = Failed THEN @ ELSE mana_result[1],
       !.last_mana_max = IF mana_result = Failed THEN @ ELSE mana_result[2]]

\* What the screen has shown legibly, after reads that returned hp_result
\* and mana_result.
Seen(e, hp_result, mana_result) ==
    [e EXCEPT !.hp_seen = IF hp_result = Failed THEN @ ELSE hp_result,
              !.mana_seen = IF mana_result = Failed THEN @ ELSE mana_result]

\* HPManaReader.read_status (hp_mana_reader.py:255-268): the StatusReading
\* built from the cache the two reads leave.
read_status(r) ==
    [hp_current |-> r.last_hp_current, hp_max |-> r.last_hp_max,
     mana_current |-> r.last_mana_current, mana_max |-> r.last_mana_max]

\* TibiaBot.run (main.py:304-310): the thread of run_loop starts.
run ==
    /\ ~bot.running /\ loop.pc = "idle"
    /\ bot' = [bot EXCEPT !.running = TRUE]
    /\ loop' = [loop EXCEPT !.pc = "top"]
    /\ call' = NoCall
    /\ UNCHANGED <<now, eater, haste, skinner, workers, env, reader, config>>
    /\ UNCHANGED healer_vars

\* The overlay's mainloop ends (main.py:356-359).
mainloop_ends ==
    /\ bot.running
    /\ bot' = [bot EXCEPT !.running = FALSE]
    /\ call' = NoCall
    /\ UNCHANGED <<now, eater, haste, skinner, workers, env, reader, config,
                   loop>>
    /\ UNCHANGED healer_vars

\* TibiaBot.start (main.py:217-227).
start ==
    /\ IF is_configured(reader)
       THEN /\ bot' = [bot EXCEPT !.active = TRUE]
            /\ Listen
       ELSE UNCHANGED <<bot, skinner, env>>
    /\ call' = NoCall
    /\ UNCHANGED <<now, eater, haste, workers, reader, config, loop>>
    /\ UNCHANGED healer_vars

\* TibiaBot.stop (main.py:229-235).
stop ==
    /\ bot' = [bot EXCEPT !.active = FALSE]
    /\ Unlisten
    /\ call' = NoCall
    /\ UNCHANGED <<now, eater, haste, workers, reader, config, loop>>
    /\ UNCHANGED healer_vars

\* TibiaBot._on_hp_region_selected (main.py:181-185) with a region.
on_hp_region_selected ==
    /\ reader' = [reader EXCEPT !.hp_region = TRUE]
    /\ config' = [config EXCEPT !.hp_region = TRUE]
    /\ call' = NoCall
    /\ UNCHANGED <<now, eater, haste, skinner, workers, env, bot, loop>>
    /\ UNCHANGED healer_vars

\* TibiaBot._on_mana_region_selected (main.py:187-191) with a region.
on_mana_region_selected ==
    /\ reader' = [reader EXCEPT !.mana_region = TRUE]
    /\ config' = [config EXCEPT !.mana_region = TRUE]
    /\ call' = NoCall
    /\ UNCHANGED <<now, eater, haste, skinner, workers, env, bot, loop>>
    /\ UNCHANGED healer_vars

\* run_loop, main.py:248-251: the tests of running and of active.
loop_top ==
    /\ loop.pc = "top"
    /\ loop' = [NoLoop EXCEPT !.pc = IF ~bot.running THEN "done"
                                    ELSE IF bot.active THEN "eat"
                                    ELSE "configured",
                              !.ready = ~is_on_cooldown]
    /\ LoopOnly

\* run_loop, main.py:252.
loop_eat ==
    /\ loop.pc = "eat"
    /\ check_and_eat
    /\ loop' = [loop EXCEPT !.pc = "cast"]

\* run_loop, main.py:253.
loop_cast ==
    /\ loop.pc = "cast"
    /\ check_and_cast
    /\ loop' = [loop EXCEPT !.pc = "configured"]

\* time.sleep(0.5) of main.py:258, in ticks.
UnconfiguredSleep == (5 * TicksPerSecond + 9) \div 10

\* run_loop, main.py:257-259: without both regions the loop sleeps and
\* starts over.
loop_configured ==
    /\ loop.pc = "configured"
    /\ IF is_configured(reader)
       THEN /\ loop' = [loop EXCEPT !.pc = "read"]
            /\ LoopOnly
       ELSE /\ now + UnconfiguredSleep <= MaxTime
            /\ now' = now + UnconfiguredSleep
            /\ loop' = [loop EXCEPT !.pc = "top"]
            /\ call' = NoCall
            /\ UNCHANGED <<eater, haste, skinner, workers, env>>
            /\ UNCHANGED healer_vars
            /\ UNCHANGED orchestrator_vars

\* run_loop, main.py:262-270, 293-294: the status is read; with no reading
\* at all the rest of the iteration is skipped.
loop_read(hp_result, mana_result) ==
    /\ loop.pc = "read"
    /\ reader' = read_cache(reader, hp_result, mana_result)
    /\ LET status == read_status(reader')
       IN  loop' = [loop EXCEPT
                      !.hp_current = status.hp_current,
                      !.hp_max = status.hp_max,
                      !.mana_current = status.mana_current,
                      !.mana_max = status.mana_max,
                      !.pc = IF ~Falsy(status.hp_current)
                                \/ ~Falsy(status.mana_current)
                             THEN "set_max_hp" ELSE "sleep"]
    /\ env' = Seen(env, hp_result, mana_result)
    /\ call' = NoCall
    /\ UNCHANGED <<now, eater, haste, skinner, workers, bot, config>>
    /\ UNCHANGED healer_vars

\* run_loop, main.py:273-274.
loop_set_max_hp ==
    /\ loop.pc = "set_max_hp"
    /\ IF ~Falsy(loop.hp_max) /\ max_hp = None
       THEN set_max_hp(loop.hp_max)
       ELSE LoopOnly
    /\ loop' = [loop EXCEPT !.pc = "set_max_mana"]

\* run_loop, main.py:275-276, and the test of active of line 279.
loop_set_max_mana ==
    /\ loop.pc = "set_max_mana"
    /\ IF ~Falsy(loop.mana_max) /\ max_mana = None
       THEN set_max_mana(loop.mana_max)
       ELSE LoopOnly
    /\ loop' = [loop EXCEPT !.pc = IF bot.active THEN "heal" ELSE "sleep"]

\* run_loop, main.py:283-287.
loop_heal ==
    /\ loop.pc = "heal"
    /\ IF ~Falsy(loop.hp_current)
       THEN /\ check_and_heal(loop.hp_current)
            /\ loop' = [loop EXCEPT !.pc = "mana",
                                    !.heal_result = call'.heal_result,
                                    !.keys = @ \o call'.keys]
       ELSE /\ LoopOnly
            /\ loop' = [loop EXCEPT !.pc = "mana"]

\* run_loop where the mana check does not look at the result of the HP
\* check.
mana_checked_always(heal_result, mana_current) == ~Falsy(mana_current)

\* The test of main.py:289: if not heal_result and status.mana_current.
mana_checked(heal_result, mana_current) ==
    heal_result = "None" /\ ~Falsy(mana_current)

\* run_loop, main.py:289-290.
loop_mana ==
    /\ loop.pc = "mana"
    /\ IF mana_checked(loop.heal_result, loop.mana_current)
       THEN /\ check_and_restore_mana(loop.mana_current)
            /\ loop' = [loop EXCEPT !.pc = "sleep", !.keys = @ \o call'.keys]
       ELSE /\ LoopOnly
            /\ loop' = [loop EXCEPT !.pc = "sleep"]

\* run_loop, main.py:296: time.sleep(wait), which may be shorter than a tick.
loop_sleep ==
    /\ loop.pc = "sleep"
    /\ \E w \in 0..1 :
         /\ w = 0 \/ now < MaxTime
         /\ now' = now + w
    /\ loop' = [NoLoop EXCEPT !.pc = "top"]
    /\ call' = NoCall
    /\ UNCHANGED <<eater, haste, skinner, workers, env>>
    /\ UNCHANGED healer_vars
    /\ UNCHANGED orchestrator_vars

\* The positions of the thread inside the try block of run_loop
\* (main.py:249-296).
TryPcs ==
    {"eat", "cast", "configured", "read", "set_max_hp", "set_max_mana", "heal",
     "mana", "sleep"}

\* A call made inside the try block raises (a unit, the screen capture, the
\* reader or the overlay): control passes to the handler of main.py:298.
loop_raise ==
    /\ loop.pc \in TryPcs
    /\ loop' = [loop EXCEPT !.pc = "except"]
    /\ LoopOnly

\* time.sleep(1) of main.py:302, in ticks.
ExceptSleep == 1 * TicksPerSecond

\* The handler (main.py:298-302): it prints the error and sets the status
\* of the overlay.  When the overlay shows it, the thread sleeps and starts
\* the next iteration; when overlay.set_status raises in its turn, nothing
\* catches it and the thread ends.
loop_except(shown) ==
    /\ loop.pc = "except"
    /\ IF shown
       THEN /\ now + ExceptSleep <= MaxTime
            /\ now' = now + ExceptSleep
            /\ loop' = [NoLoop EXCEPT !.pc = "top"]
       ELSE /\ now' = now
            /\ loop' = [loop EXCEPT !.pc = "dead"]
    /\ call' = NoCall
    /\ UNCHANGED <<eater, haste, skinner, workers, env>>
    /\ UNCHANGED healer_vars
    /\ UNCHANGED orchestrator_vars

\* What the OCR of a region may return: nothing, or a pair current/max that
\* _parse_current_max accepts (1 <= current <= max).
HpResults == {Failed, <<40, 100>>, <<120, 150>>}
ManaResults == {Failed, <<40, 100>>}

\* The steps of the thread of run_loop.
LoopNext ==
    \/ loop_top
    \/ loop_eat
    \/ loop_cast
    \/ loop_configured
    \/ \E hp_result \in HpResults, mana_result \in ManaResults :
          loop_read(hp_result, mana_result)
    \/ loop_set_max_hp
    \/ loop_set_max_mana
    \/ loop_heal
    \/ loop_mana
    \/ loop_sleep
    \/ loop_raise
    \/ \E shown \in BOOLEAN : loop_except(shown)

\* The events of the overlay, on the main thread, while its mainloop runs:
\* the regions, start and stop, and the end of the mainloop.
EventNext ==
    /\ bot.running
    /\ UNCHANGED loop
    /\ \/ start
       \/ stop
       \/ on_hp_region_selected
       \/ on_mana_region_selected
       \/ mainloop_ends

\* healer.critical_is_potion = value: the mode flag is a plain attribute
\* (healer.py:50) that its user assigns.
set_critical_is_potion(value) ==
    /\ critical_is_potion' = value
    /\ call' = NoCall
    /\ UNCHANGED <<max_hp, max_mana, heal, critical_heal, mana_restore,
                   last_cast_time, now, last_press, last_fire_at>>
    /\ UNCHANGED unit_vars
    /\ UNCHANGED orchestrator_vars

\* The readings handed to the healer when its methods are called directly.
ApiReadings == Readings \cup {120}

\* The check methods of the healer called directly, and its mode set, as
\* its tests do, on a bot that has not been run.
ApiNext ==
    /\ ~bot.running /\ loop.pc = "idle"
    /\ UNCHANGED loop
    /\ \/ \E b \in BOOLEAN : set_critical_is_potion(b)
       \/ \E hp \in ApiReadings : check_and_heal(hp)
       \/ \E mana \in ApiReadings : check_and_restore_mana(mana)
       \/ \E hp \in ApiReadings, mana \in ApiReadings :
             check_critical_and_mana_with_priority(hp, mana)

BotNext ==
    \/ HealerUnused /\ run
    \/ ApiNext
    \/ LoopNext
    \/ EventNext

BotSpec == Init /\ [][BotNext]_vars

(***************************************************************************)
(* The poll loop for as long as it runs.  The program reads the clock only *)
(* to compare it with the stamps it wrote (healer.py:91, eater.py:59,      *)
(* haste.py:29): moving the origin of the clock changes no outcome.  When  *)
(* the clock reaches the horizon the origin is moved forward by Horizon,   *)
(* so that behaviours of any length are followed within the same bounds.   *)
(***************************************************************************)
\* The instant t after the origin of the clock has moved forward by Horizon;
\* an instant older than the new origin is as old as the origin.
Rebased(t) == IF t = None THEN None ELSE IF t > Horizon THEN t - Horizon ELSE 0

\* The origin of the clock moves forward: the clock and every stamp are
\* earlier by Horizon, their distances are kept.
Rebase ==
    /\ now = MaxTime
    /\ now' = Rebased(now)
    /\ last_cast_time' = Rebased(last_cast_time)
    /\ last_press' = Rebased(last_press)
    /\ last_fire_at' = Rebased(last_fire_at)
    /\ eater' = [eater EXCEPT !.next_eat_time = Rebased(@)]
    /\ haste' = [haste EXCEPT !.next_cast_time = Rebased(@)]
    /\ env' = [env EXCEPT !.enabled_at = Rebased(@), !.cast_at = Rebased(@)]
    /\ workers' = [i \in 1..Len(workers) |-> Rebased(workers[i])]
    /\ call' = NoCall
    /\ UNCHANGED <<max_hp, max_mana, heal, critical_heal, mana_restore,
                   critical_is_potion, skinner>>
    /\ UNCHANGED orchestrator_vars

\* Time passes while the thread of run_loop is between two calls.
Elapses == UNCHANGED loop /\ (Tick \/ Rebase)

\* A character whose HP stays below the critical threshold: what the OCR of
\* the HP region returns at every tick.
LowHpResults == {<<40, 100>>}

\* The thread of run_loop takes a step that is not a check of the healer,
\* the screen showing a low HP.
Proceeds ==
    \/ loop_top
    \/ loop_eat
    \/ loop_cast
    \/ loop_configured
    \/ \E hp_result \in LowHpResults, mana_result \in ManaResults :
          loop_read(hp_result, mana_result)
    \/ loop_set_max_hp
    \/ loop_set_max_mana
    \/ loop_sleep

\* The thread of run_loop takes its next step.
Polls ==
    \/ Proceeds
    \/ loop_heal
    \/ loop_mana

\* The thread is not inside a check of the healer.
Returned == loop.pc \notin {"heal", "mana"}

\* The bot is set up and started, and stays active.
Setup ==
    /\ UNCHANGED loop
    /\ \/ on_hp_region_selected
       \/ on_mana_region_selected
       \/ bot.running /\ start

PollNext ==
    \/ HealerUnused /\ run
    \/ Setup
    \/ Polls
    \/ Elapses

PollSpec == Init /\ [][PollNext]_vars

\* The thread of run_loop is scheduled again and again, every check of the
\* healer it makes returns, and time passes.
PollLiveSpec ==
    PollSpec /\ WF_vars(Proceeds) /\ []<>Returned /\ WF_vars(Elapses)

(***************************************************************************)
(* The two threads step by step.  The thread of run_loop and the main      *)
(* thread of the overlay share the units without a lock: a method of a     *)
(* unit is a sequence of reads and writes of its fields, and the events of *)
(* the main thread fall between any two of them.                           *)
(***************************************************************************)
\* The draws of random.uniform(lo, hi) followed step by step: the two ends
\* of the range, in ticks.
Ends(lo, hi) == {lo * TicksPerSecond, hi * TicksPerSecond}

\* A step of the thread of run_loop inside a unit that writes no field: the
\* thread moves to position pc and leaves the record call.
PollStep(pc, record) ==
    /\ loop' = [loop EXCEPT !.pc = pc]
    /\ call' = record
    /\ UNCHANGED <<now, eater, haste, skinner, workers>>
    /\ UNCHANGED healer_vars
    /\ UNCHANGED orchestrator_vars

\* check_and_eat, eater.py:56-57: the test of enabled.
poll_eat_enabled ==
    /\ loop.pc = "eat"
    /\ PollStep(IF eater.enabled THEN "eat_due" ELSE "cast", NoCall)
    /\ UNCHANGED env

\* check_and_eat, eater.py:59-61: the clock is read and compared with the
\* timer.
poll_eat_due ==
    /\ loop.pc = "eat_due"
    /\ PollStep(IF now >= eater.next_eat_time THEN "eat_press1" ELSE "cast",
                NoCall)
    /\ UNCHANGED env

\* _eat_now, eater.py:66 and 68: one press of the hotkey.
poll_eat_press(from, to) ==
    /\ loop.pc = from
    /\ PollStep(to, UnitCall("eat_press", <<eater.hotkey>>, eater.next_eat_time,
                             None))
    /\ UNCHANGED env

\* _eat_now, eater.py:67: the sleep between the two presses.
poll_eat_sleep ==
    /\ loop.pc = "eat_sleep"
    /\ \E s \in SleepTicks : now' = now + s
    /\ loop' = [loop EXCEPT !.pc = "eat_press2"]
    /\ call' = NoCall
    /\ UNCHANGED <<eater, haste, skinner, workers, env>>
    /\ UNCHANGED healer_vars
    /\ UNCHANGED orchestrator_vars

\* _eat_now, eater.py:71-77: the food is looked up and the timer written.
\* The record keeps whether the timer had been reset during the meal.
poll_eat_stamp ==
    /\ loop.pc = "eat_stamp"
    /\ \E j \in Ends(EatJitterMin, EatJitterMax) :
          eater' = eat_now(eater, now, j)
    /\ env' = [env EXCEPT !.meal_reset = FALSE]
    /\ loop' = [loop EXCEPT !.pc = "cast"]
    /\ call' = [UnitCall("eat_stamp", <<>>, eater.next_eat_time, now)
                  EXCEPT !.value = Flag(env.meal_reset)]
    /\ UNCHANGED <<now, haste, skinner, workers>>
    /\ UNCHANGED healer_vars
    /\ UNCHANGED orchestrator_vars

\* The positions of the thread of run_loop between the eligibility check of
\* check_and_eat and the write of next_eat_time.
MealPcs == {"eat_press1", "eat_sleep", "eat_press2", "eat_stamp"}

\* check_and_cast, haste.py:26-27: the test of enabled.
poll_cast_enabled ==
    /\ loop.pc = "cast"
    /\ PollStep(IF haste.enabled THEN "cast_due" ELSE "configured", NoCall)
    /\ UNCHANGED env

\* check_and_cast, haste.py:29: the clock is read and compared with the
\* timer.
poll_cast_due ==
    /\ loop.pc = "cast_due"
    /\ PollStep(IF now >= haste.next_cast_time THEN "cast_press"
                ELSE "configured", NoCall)
    /\ UNCHANGED env

\* _cast_now, haste.py:34: the press of the hotkey.
poll_cast_press ==
    /\ loop.pc = "cast_press"
    /\ PollStep("cast_stamp",
                [UnitCall("cast_press", <<haste.hotkey>>, haste.next_cast_time,
                          None) EXCEPT !.prev_press = env.cast_at])
    /\ env' = [env EXCEPT !.cast_at = now]

\* _cast_now, haste.py:37-38: the delay is drawn and the timer written.
poll_cast_stamp ==
    /\ loop.pc = "cast_stamp"
    /\ \E delay \in Ends(HasteDelayMin, HasteDelayMax) :
          haste' = cast_now(haste, now, delay)
    /\ loop' = [loop EXCEPT !.pc = "configured"]
    /\ call' = UnitCall("cast_stamp", <<>>, haste.next_cast_time, now)
    /\ UNCHANGED <<now, eater, skinner, workers, env>>
    /\ UNCHANGED healer_vars
    /\ UNCHANGED orchestrator_vars

\* An event of the overlay that the main thread handles in one piece, about
\* the eater: the unit and the settings after it.
EaterEvent(op, key, e, cfg, reset) ==
    /\ eater' = e
    /\ config' = cfg
    /\ env' = [env EXCEPT !.meal_reset = @ \/ (reset /\ loop.pc \in MealPcs)]
    /\ call' = [NoCall EXCEPT !.op = op, !.key = key, !.at = now]
    /\ UNCHANGED <<now, haste, skinner, workers, bot, reader, loop>>
    /\ UNCHANGED healer_vars

\* TibiaBot._on_food_type_change (main.py:136-139), with
\* AutoEater.set_food_type (eater.py:35-42).
on_food_type_change(value) ==
    EaterEvent("on_food_type_change", value,
               IF value \in DOMAIN FOODS
               THEN [eater EXCEPT !.current_food = value, !.next_eat_time = 0]
               ELSE eater,
               [config EXCEPT !.food_type = value],
               value \in DOMAIN FOODS)

\* TibiaBot._on_eater_toggle (main.py:131-134), with AutoEater.toggle
\* (eater.py:44-52).
on_eater_toggle(enabled) ==
    EaterEvent("on_eater_toggle", IF enabled THEN "True" ELSE "False",
               [eater EXCEPT !.enabled = enabled,
                             !.next_eat_time = IF enabled THEN 0 ELSE @],
               [config EXCEPT !.eater_enabled = enabled],
               enabled)

\* TibiaBot._on_haste_toggle up to the first write of AutoHaste.toggle
\* (main.py:146-147, haste.py:13): self.enabled = enabled.
ui_haste_toggle_flag(enabled) ==
    /\ bot.handler = "idle"
    /\ haste' = [haste EXCEPT !.enabled = enabled]
    /\ env' = EnabledAt(env, haste.enabled, enabled)
    /\ bot' = [bot EXCEPT !.handler = "haste_toggle"]
    /\ call' = [NoCall EXCEPT !.op = "haste_toggle_flag", !.value = Flag(enabled),
                              !.at = now]
    /\ UNCHANGED <<now, eater, skinner, workers, reader, config, loop>>
    /\ UNCHANGED healer_vars

\* The rest of the event (haste.py:14-22, main.py:148-149): when enabling,
\* the delay is drawn and next_cast_time written; the setting is saved.
ui_haste_toggle_rest ==
    /\ bot.handler = "haste_toggle"
    /\ IF haste.enabled
       THEN \E delay \in Ends(HasteDelayMin, HasteDelayMax) :
              haste' = [haste EXCEPT !.next_cast_time = now + delay]
       ELSE UNCHANGED haste
    /\ config' = [config EXCEPT !.haste_enabled = haste.enabled]
    /\ bot' = [bot EXCEPT !.handler = "idle"]
    /\ call' = [NoCall EXCEPT !.op = "haste_toggle_rest", !.at = now]
    /\ UNCHANGED <<now, eater, skinner, workers, env, reader, loop>>
    /\ UNCHANGED healer_vars

\* The screen shows full bars: the healer has nothing to do.
FullResults == {<<100, 100>>}

\* The steps of the thread of run_loop after the two timed units
\* (main.py:256-296).
PollRest ==
    \/ loop_top
    \/ loop_configured
    \/ \E hp_result \in FullResults : loop_read(hp_result, hp_result)
    \/ loop_set_max_hp
    \/ loop_set_max_mana
    \/ loop_heal
    \/ loop_mana
    \/ loop_sleep

\* The events that bring the bot to work: both regions chosen, then start.
UiSetup ==
    /\ bot.running /\ bot.handler = "idle"
    /\ \/ start
       \/ on_hp_region_selected
       \/ on_mana_region_selected

\* The haste toggle of the overlay against the thread of run_loop: the
\* steps of check_and_cast and of toggle interleave.  The eater is left
\* disabled, its check is one step.
HasteRaceNext ==
    \/ HealerUnused /\ run
    \/ /\ UNCHANGED loop
       /\ \/ UiSetup
          \/ bot.running /\ \E b \in BOOLEAN : ui_haste_toggle_flag(b)
          \/ ui_haste_toggle_rest
    \/ loop_eat
    \/ poll_cast_enabled
    \/ poll_cast_due
    \/ poll_cast_press
    \/ poll_cast_stamp
    \/ PollRest

HasteRaceSpec == Init /\ [][HasteRaceNext]_vars

\* The food chosen in the overlay.
EventFoods == {"brown_mushroom"}

\* The eater's events and stop against the thread of run_loop: the steps of
\* check_and_eat interleave with the events.  Haste is left disabled, its
\* check is one step.  A meal is begun while the clock is within the horizon.
MealRaceNext ==
    \/ HealerUnused /\ run
    \/ /\ UNCHANGED loop
       /\ \/ UiSetup
          \/ /\ bot.running
             /\ \/ stop
                \/ \E value \in EventFoods : on_food_type_change(value)
                \/ \E b \in BOOLEAN : on_eater_toggle(b)
    \/ poll_eat_enabled
    \/ now < MaxTime /\ poll_eat_due
    \/ poll_eat_press("eat_press1", "eat_sleep")
    \/ poll_eat_sleep
    \/ poll_eat_press("eat_press2", "eat_stamp")
    \/ poll_eat_stamp
    \/ loop_cast
    \/ PollRest

MealRaceSpec == Init /\ [][MealRaceNext]_vars

(***************************************************************************)
(* The perception source on its own (hp_mana_reader.py): read_status and   *)
(* reset called one after the other, with regions set or not, on screens   *)
(* that are legible or not.                                                *)
(***************************************************************************)
\* HPManaReader.read_hp (hp_mana_reader.py:200-201) and read_mana (229-230):
\* without its region the read returns None, whatever the screen shows.
read_region(region, parsed) == IF region THEN parsed ELSE Failed

\* HPManaReader.read_status(screenshot) (hp_mana_reader.py:255-268), on a
\* screenshot whose regions parse as hp_parsed and mana_parsed.
reader_read_status(hp_parsed, mana_parsed) ==
    LET hp_result   == read_region(reader.hp_region, hp_parsed)
        mana_result == read_region(reader.mana_region, mana_parsed)
    IN  /\ reader' = read_cache(reader, hp_result, mana_result)
        /\ env' = Seen(env, hp_result, mana_result)
        /\ call' = [NoCall EXCEPT !.op = "read_status",
                                  !.hp_result = hp_result,
                                  !.mana_result = mana_result,
                                  !.status = read_status(reader'),
                                  !.at = now]
        /\ UNCHANGED <<now, eater, haste, skinner, workers, bot, config, loop>>
        /\ UNCHANGED healer_vars

\* HPManaReader.reset (hp_mana_reader.py:270-275).
reader_reset ==
    /\ reader' = [reader EXCEPT !.last_hp_current = None, !.last_hp_max = None,
                                !.last_mana_current = None,
                                !.last_mana_max = None]
    /\ env' = [env EXCEPT !.hp_seen = Failed, !.mana_seen = Failed]
    /\ call' = [NoCall EXCEPT !.op = "reset", !.at = now]
    /\ UNCHANGED <<now, eater, haste, skinner, workers, bot, config, loop>>
    /\ UNCHANGED healer_vars

\* HPManaReader.set_regions(hp_region, mana_region) (hp_mana_reader.py:76-87)
\* with the regions given or None: the reader after the call.
set_regions(r, hp_region, mana_region) ==
    [r EXCEPT !.hp_region = IF hp_region THEN TRUE ELSE @,
              !.mana_region = IF mana_region THEN TRUE ELSE @]

\* TibiaBot._on_reset_config (main.py:193-197): the regions of the settings
\* are cleared and saved, and set_regions is called with None and None.
on_reset_config ==
    /\ config' = [config EXCEPT !.hp_region = FALSE, !.mana_region = FALSE]
    /\ reader' = set_regions(reader, FALSE, FALSE)
    /\ call' = [NoCall EXCEPT !.op = "on_reset_config", !.at = now]
    /\ UNCHANGED <<now, eater, haste, skinner, workers, env, bot, loop>>
    /\ UNCHANGED healer_vars

\* What the regions of a screenshot may parse as.
HpParsed == {Failed, <<40, 100>>, <<80, 100>>, <<100, 100>>}
ManaParsed == {Failed, <<30, 90>>, <<60, 90>>, <<90, 90>>}

ReaderNext ==
    \/ \E hp_parsed \in HpParsed, mana_parsed \in ManaParsed :
          reader_read_status(hp_parsed, mana_parsed)
    \/ reader_reset
    \/ on_hp_region_selected
    \/ on_mana_region_selected
    \/ on_reset_config

ReaderSpec == Init /\ [][ReaderNext]_vars

(***************************************************************************)
(* The settings across runs (main.py:40-80, 116-215; user_config.py).      *)
(* Every event of the overlay changes the unit and the configuration,      *)
(* which save() persists; a new run of the program builds the units and    *)
(* loads what the run before persisted.                                    *)
(***************************************************************************)
\* TibiaBot._load_saved_config (main.py:40-80): the reader and the units,
\* fresh from their constructors, take the settings c.
load_saved_config(c) ==
    /\ reader' = [HPManaReader EXCEPT !.hp_region = c.hp_region,
                                     !.mana_region = c.mana_region]
    /\ heal' = HealConfig(c.heal_enabled, c.heal_threshold, c.heal_hotkey)
    /\ critical_heal' =
         HealConfig(c.critical_enabled, c.critical_threshold, c.critical_hotkey)
    /\ mana_restore' = HealConfig(c.mana_enabled, c.mana_threshold, c.mana_hotkey)
    /\ eater' = [AutoEater EXCEPT
                   !.enabled = c.eater_enabled,
                   !.current_food = IF c.food_type \in DOMAIN FOODS
                                    THEN c.food_type ELSE @,
                   !.hotkey = c.eater_hotkey]
    /\ haste' = [AutoHaste EXCEPT !.enabled = c.haste_enabled,
                                 !.hotkey = c.haste_hotkey]
    /\ skinner' = [AutoSkinner EXCEPT !.enabled = c.skinner_enabled,
                                     !.hotkey = c.skinner_hotkey]

\* The process ends and main() runs again (main.py:363-405): the threads
\* and the listener of the old process are gone, ConfigManager.load reads
\* what was persisted, and TibiaBot.__init__ builds the units and loads it.
restart ==
    /\ ~bot.running
    /\ load_saved_config(config)
    /\ max_hp' = None
    /\ max_mana' = None
    /\ last_cast_time' = 0
    /\ critical_is_potion' = FALSE
    /\ last_press' = None
    /\ last_fire_at' = None
    /\ workers' = <<>>
    /\ env' = EnabledAt(NoEvent, FALSE, config.haste_enabled)
    /\ bot' = TibiaBot
    /\ loop' = NoLoop
    /\ call' = [NoCall EXCEPT !.op = "restart", !.at = now]
    /\ UNCHANGED <<now, config>>

\* The slot after set_*_threshold(value) (healer.py:145-155).
with_threshold(slot, value) ==
    IF MinThreshold <= value /\ value <= MaxThreshold
    THEN [slot EXCEPT !.threshold = value] ELSE slot

\* An event of the overlay about the healer: the slots and the settings
\* after it, and its record.
HealerEvent(op, value, key, h, c, m, cfg) ==
    /\ heal' = h
    /\ critical_heal' = c
    /\ mana_restore' = m
    /\ config' = cfg
    /\ call' = [NoCall EXCEPT !.op = op, !.value = value, !.key = key,
                              !.at = now]
    /\ UNCHANGED <<max_hp, max_mana, last_cast_time, critical_is_potion, now,
                   last_press, last_fire_at>>
    /\ UNCHANGED unit_vars
    /\ UNCHANGED <<bot, reader, loop>>

\* TibiaBot._on_heal_threshold_change (main.py:166-169).
on_heal_threshold_change(value) ==
    HealerEvent("on_heal_threshold_change", value, "None",
                with_threshold(heal, value), critical_heal, mana_restore,
                [config EXCEPT !.heal_threshold = value])

\* TibiaBot._on_critical_threshold_change (main.py:171-174).
on_critical_threshold_change(value) ==
    HealerEvent("on_critical_threshold_change", value, "None",
                heal, with_threshold(critical_heal, value), mana_restore,
                [config EXCEPT !.critical_threshold = value])

\* TibiaBot._on_mana_threshold_change (main.py:176-179).
on_mana_threshold_change(value) ==
    HealerEvent("on_mana_threshold_change", value, "None",
                heal, critical_heal, with_threshold(mana_restore, value),
                [config EXCEPT !.mana_threshold = value])

\* TibiaBot._on_heal_toggle (main.py:116-119).
on_heal_toggle(enabled) ==
    HealerEvent("on_heal_toggle", Flag(enabled), "None",
                [heal EXCEPT !.enabled = enabled], critical_heal, mana_restore,
                [config EXCEPT !.heal_enabled = enabled])

\* TibiaBot._on_critical_toggle (main.py:121-124).
on_critical_toggle(enabled) ==
    HealerEvent("on_critical_toggle", Flag(enabled), "None",
                heal, [critical_heal EXCEPT !.enabled = enabled], mana_restore,
                [config EXCEPT !.critical_enabled = enabled])

\* TibiaBot._on_mana_toggle (main.py:126-129).
on_mana_toggle(enabled) ==
    HealerEvent("on_mana_toggle", Flag(enabled), "None",
                heal, critical_heal, [mana_restore EXCEPT !.enabled = enabled],
                [config EXCEPT !.mana_enabled = enabled])

\* TibiaBot._on_heal_hotkey_change (main.py:199-203).
on_heal_hotkey_change(key) ==
    HealerEvent("on_heal_hotkey_change", None, key,
                [heal EXCEPT !.hotkey = key], critical_heal, mana_restore,
                [config EXCEPT !.heal_hotkey = key])

\* TibiaBot._on_critical_hotkey_change (main.py:205-209).
on_critical_hotkey_change(key) ==
    HealerEvent("on_critical_hotkey_change", None, key,
                heal, [critical_heal EXCEPT !.hotkey = key], mana_restore,
                [config EXCEPT !.critical_hotkey = key])

\* TibiaBot._on_mana_hotkey_change (main.py:211-215).
on_mana_hotkey_change(key) ==
    HealerEvent("on_mana_hotkey_change", None, key,
                heal, critical_heal, [mana_restore EXCEPT !.hotkey = key],
                [config EXCEPT !.mana_hotkey = key])

\* TibiaBot._on_haste_toggle (main.py:146-149).
on_haste_toggle(enabled) ==
    /\ IF enabled
       THEN \E delay \in Uniform(HasteDelayMin, HasteDelayMax) :
              haste' = [haste EXCEPT !.enabled = TRUE,
                                     !.next_cast_time = now + delay]
       ELSE haste' = [haste EXCEPT !.enabled = FALSE]
    /\ env' = EnabledAt(env, haste.enabled, enabled)
    /\ config' = [config EXCEPT !.haste_enabled = enabled]
    /\ call' = [NoCall EXCEPT !.op = "on_haste_toggle", !.value = Flag(enabled),
                              !.at = now]
    /\ UNCHANGED <<now, eater, skinner, workers, bot, reader, loop>>
    /\ UNCHANGED healer_vars

\* What the entry of a threshold may hold when the event is sent: the
\* overlay passes any integer typed (overlay.py:932-943).
EventThresholds == {40, 100}
\* The key captured for a slot.
EventHotkeys == {"F5"}

\* The settings of the healer changed from the overlay, in any order, over
\* any number of runs of the program.
SettingsNext ==
    \/ \E v \in EventThresholds : on_heal_threshold_change(v)
    \/ \E v \in EventThresholds : on_critical_threshold_change(v)
    \/ \E v \in EventThresholds : on_mana_threshold_change(v)
    \/ \E b \in BOOLEAN : on_heal_toggle(b)
    \/ \E b \in BOOLEAN : on_critical_toggle(b)
    \/ \E b \in BOOLEAN : on_mana_toggle(b)
    \/ \E k \in EventHotkeys : on_heal_hotkey_change(k)
    \/ \E k \in EventHotkeys : on_critical_hotkey_change(k)
    \/ \E k \in EventHotkeys : on_mana_hotkey_change(k)
    \/ restart

SettingsSpec == Init /\ [][SettingsNext]_vars

\* The haste unit over the runs of the program: it is toggled from the
\* overlay, the program is restarted, the regions are selected, the bot is
\* started, and the thread of run_loop polls the units; the perception
\* source reads nothing.  The runs are followed while the clock is within
\* the horizon.
StartupNext ==
    \/ run
    \/ start
    \/ stop
    \/ on_hp_region_selected
    \/ on_mana_region_selected
    \/ mainloop_ends
    \/ restart
    \/ \E b \in BOOLEAN : on_haste_toggle(b)
    \/ loop_top
    \/ loop_eat
    \/ now < MaxTime /\ loop_cast
    \/ loop_configured
    \/ loop_read(Failed, Failed)
    \/ loop_sleep

StartupSpec == Init /\ [][StartupNext]_vars

(***************************************************************************)
(* The vocabulary of the unit laws.                                        *)
(***************************************************************************)
IsEat == call.op = "check_and_eat"
IsCast == call.op = "check_and_cast"
\* A duration of sec seconds, in ticks.
Seconds(sec) == sec * TicksPerSecond

(***************************************************************************)
(* C13.  Disablement: a check_and_eat made while the eater is disabled     *)
(* presses no key, whatever its timer; the same holds of check_and_cast    *)
(* and the haste unit; and check_and_heal presses no key for any reading   *)
(* while the normal and the critical slot are both disabled.               *)
(***************************************************************************)
C13_Disablement ==
    /\ (IsEat /\ ~eater.enabled) => call.keys = <<>>
    /\ (IsCast /\ ~haste.enabled) => call.keys = <<>>
    /\ (IsHeal /\ ~heal.enabled /\ ~critical_heal.enabled) => call.keys = <<>>

\* A check of the eater, toggled off after a meal, at or after the instant
\* its timer ran out.
C13_Witness ==
    /\ IsEat /\ ~eater.enabled
    /\ eater.next_eat_time # 0 /\ now >= eater.next_eat_time
    /\ call.keys = <<>>

(***************************************************************************)
(* C14.  Haste non-immediacy: toggle(True) sets the timer between 31.0 and *)
(* 33.0 seconds after the clock it reads, a check_and_cast that follows it *)
(* immediately presses nothing, and no check_and_cast fires before the     *)
(* timer it finds.                                                         *)
(***************************************************************************)
C14_Step ==
    /\ (call'.op = "haste_toggle" /\ call'.key = "True") =>
         /\ haste'.next_cast_time >= now' + Seconds(HasteDelayMin)
         /\ haste'.next_cast_time <= now' + Seconds(HasteDelayMax)
    /\ (call.op = "haste_toggle" /\ call.key = "True" /\ call'.op = "check_and_cast")
         => call'.keys = <<>>
    /\ (call'.op = "check_and_cast" /\ call'.keys # <<>>) => call'.at >= call'.timer0

C14_HasteNonImmediacy == [][C14_Step]_vars

\* A check made at the instant of a toggle(True) that drew the least delay.
C14_Witness ==
    /\ IsCast /\ haste.enabled /\ call.keys = <<>>
    /\ haste.next_cast_time = now + Seconds(HasteDelayMin)

(***************************************************************************)
(* C15.  Haste cast and reschedule: check_and_cast on an enabled unit      *)
(* whose timer has elapsed presses the hotkey exactly once and sets        *)
(* next_cast_time into [t + 31, t + 33], t being the clock the cast reads; *)
(* when disabled or before the timer it presses nothing and leaves         *)
(* next_cast_time unchanged.                                               *)
(***************************************************************************)
C15_CastAndReschedule ==
    IsCast =>
        IF haste.enabled /\ call.at >= call.timer0
        THEN /\ call.keys = <<haste.hotkey>>
             /\ haste.next_cast_time >= call.stamp + Seconds(HasteDelayMin)
             /\ haste.next_cast_time <= call.stamp + Seconds(HasteDelayMax)
        ELSE /\ call.keys = <<>>
             /\ haste.next_cast_time = call.timer0

\* A cast made one tick after the timer that toggle(True) set ran out.
C15_Witness ==
    /\ IsCast /\ call.keys # <<>>
    /\ call.timer0 # 0 /\ call.at = call.timer0 + 1

(***************************************************************************)
(* C16.  Eater cadence: after check_and_eat eats at time now, the time at  *)
(* which it found the timer elapsed, with food of per-item duration d,     *)
(* next_eat_time lies in [now + 2d + 1.0, now + 2d + 6.0].                 *)
(***************************************************************************)
C16_EaterCadence ==
    (IsEat /\ call.keys # <<>>) =>
        /\ eater.next_eat_time
             >= call.at + Seconds(2 * FOODS[eater.current_food] + EatJitterMin)
        /\ eater.next_eat_time
             <= call.at + Seconds(2 * FOODS[eater.current_food] + EatJitterMax)

(***************************************************************************)
(* C17.  Eater double press: a check_and_eat on an enabled eater whose     *)
(* timer has elapsed presses the bound hotkey exactly twice; one made      *)
(* while disabled or before the timer presses nothing and leaves           *)
(* next_eat_time unchanged.                                                *)
(***************************************************************************)
C17_DoublePress ==
    IsEat =>
        IF eater.enabled /\ call.at >= call.timer0
        THEN call.keys = <<eater.hotkey, eater.hotkey>>
        ELSE /\ call.keys = <<>>
             /\ eater.next_eat_time = call.timer0

\* A meal taken when the timer of the meal before ran out.
C17_Witness ==
    /\ IsEat /\ Len(call.keys) = 2
    /\ call.timer0 # 0 /\ call.at >= call.timer0

(***************************************************************************)
(* C18.  Food switch forces a meal: set_food_type with a key of the        *)
(* catalog sets current_food to it and next_eat_time to the past, and a    *)
(* check_and_eat that follows on an enabled eater eats; a key outside the  *)
(* catalog leaves current_food and next_eat_time unchanged.                *)
(***************************************************************************)
C18_Step ==
    /\ (call'.op = "set_food_type" /\ call'.key \in DOMAIN FOODS) =>
         /\ eater'.current_food = call'.key
         /\ eater'.next_eat_time < now'
         /\ eater'.enabled => eat_due(eater', now')
    /\ (call'.op = "set_food_type" /\ call'.key \notin DOMAIN FOODS) =>
         /\ eater'.current_food = eater.current_food
         /\ eater'.next_eat_time = eater.next_eat_time
    /\ ( /\ call.op = "set_food_type" /\ call.key \in DOMAIN FOODS
         /\ eater.enabled /\ call'.op = "check_and_eat" )
         => call'.keys = <<eater.hotkey, eater.hotkey>>

C18_FoodSwitch == [][C18_Step]_vars

\* The food switched on an enabled eater whose timer had not run out.
C18_Witness ==
    /\ call.op = "set_food_type" /\ call.key = "brown_mushroom"
    /\ eater.enabled /\ call.timer0 > now
    /\ eater.current_food = "brown_mushroom"

(***************************************************************************)
(* C19.  Eater toggle: toggle(True) makes the eater eligible at once, also *)
(* when it was already enabled with a pending timer, and a check_and_eat   *)
(* that follows eats; toggle(False) changes the enabled flag alone.        *)
(***************************************************************************)
C19_Step ==
    /\ (call'.op = "eater_toggle" /\ call'.key = "True") =>
         /\ eater'.enabled
         /\ eat_due(eater', now')
    /\ (call.op = "eater_toggle" /\ call.key = "True" /\ call'.op = "check_and_eat")
         => call'.keys = <<eater.hotkey, eater.hotkey>>
    /\ (call'.op = "eater_toggle" /\ call'.key = "False") =>
         eater' = [eater EXCEPT !.enabled = FALSE]

C19_EaterToggle == [][C19_Step]_vars

\* toggle(True) on an eater that was enabled, its timer pending.
C19_Witness ==
    /\ call.op = "eater_toggle" /\ call.key = "True"
    /\ call.value = Flag(TRUE) /\ call.timer0 > now

(***************************************************************************)
(* C20.  Skinner trigger: a click event starts exactly one thread of       *)
(* _perform_skinning if and only if enabled is true, the event is a press  *)
(* and the button is the right one; the callback itself presses nothing    *)
(* and does not wait; each thread presses the skinner hotkey once, no      *)
(* earlier than the delay after the click.                                 *)
(***************************************************************************)
C20_Step ==
    /\ call'.op = "on_click" =>
         /\ Len(workers') =
              Len(workers) + (IF /\ skinner.enabled
                                 /\ call'.value = Flag(TRUE)
                                 /\ call'.key = "right"
                              THEN 1 ELSE 0)
         /\ call'.keys = <<>>
         /\ now' = now
    /\ call'.op = "perform_skinning" =>
         /\ call'.keys = <<skinner.hotkey>>
         /\ Len(workers') = Len(workers) - 1
         /\ now' >= call'.timer0 + SleepTicksMin
    /\ call'.op \notin {"on_click", "perform_skinning"} => workers' = workers

C20_SkinnerTrigger == [][C20_Step]_vars

\* The press of a thread, made while a later click's thread is in flight.
C20_Witness ==
    /\ call.op = "perform_skinning" /\ call.keys = <<skinner.hotkey>>
    /\ Len(workers) = 1 /\ workers[1] > call.timer0

(***************************************************************************)
(* C11.  Capacity is detected once: a check_* call sets max_hp (max_mana)  *)
(* only when it is unset and the reading is positive, to that reading;     *)
(* once it is set, no check_* call and no step of the poll loop changes    *)
(* it, whatever the readings.                                              *)
(***************************************************************************)
CheckOps ==
    {"check_and_heal", "check_and_restore_mana",
     "check_critical_and_mana_with_priority"}

C11_Step ==
    /\ (max_hp # None /\ (call'.op \in CheckOps \/ loop' # loop))
         => max_hp' = max_hp
    /\ (max_mana # None /\ (call'.op \in CheckOps \/ loop' # loop))
         => max_mana' = max_mana
    /\ (call'.op \in CheckOps /\ max_hp' # max_hp) =>
         (max_hp = None /\ call'.hp > 0 /\ max_hp' = call'.hp)
    /\ (call'.op \in CheckOps /\ max_mana' # max_mana) =>
         (max_mana = None /\ call'.mana > 0 /\ max_mana' = call'.mana)

C11_DetectedOnce == [][C11_Step]_vars

\* The HP check of a poll tick, handed a reading above the capacity that an
\* earlier tick had set.
C11_Witness ==
    /\ IsHeal /\ loop.pc = "mana"
    /\ call.max_hp0 # None /\ call.hp > call.max_hp0
    /\ max_hp = call.max_hp0

(***************************************************************************)
(* C12.  Threshold clamp law: a threshold setter called with a value       *)
(* outside [1, 99] leaves the slot's threshold as it was, one called with  *)
(* a value inside sets it to that value; nothing else of the three slots   *)
(* changes.                                                                *)
(***************************************************************************)
C12_Set(old, new, value) ==
    new = [old EXCEPT !.threshold = IF 1 <= value /\ value <= 99 THEN value ELSE @]

C12_Step ==
    /\ call'.op = "set_heal_threshold" =>
         /\ C12_Set(heal, heal', call'.value)
         /\ UNCHANGED <<critical_heal, mana_restore>>
    /\ call'.op = "set_critical_threshold" =>
         /\ C12_Set(critical_heal, critical_heal', call'.value)
         /\ UNCHANGED <<heal, mana_restore>>
    /\ call'.op = "set_mana_threshold" =>
         /\ C12_Set(mana_restore, mana_restore', call'.value)
         /\ UNCHANGED <<heal, critical_heal>>

C12_ThresholdClamp == [][C12_Step]_vars

\* 100 refused by a slot whose threshold an earlier call had set to 1.
C12_Witness ==
    /\ call.op = "set_critical_threshold" /\ call.value = 100
    /\ critical_heal.threshold = 1

(***************************************************************************)
(* C21.  In-flight skinning workers: every qualifying click has its own    *)
(* thread, either in flight or done with exactly one press of the hotkey,  *)
(* also when toggle(False) or stop() was called during its delay; several  *)
(* threads may be in flight at once; and the presses of the skinner        *)
(* eventually equal the qualifying clicks.                                 *)
(***************************************************************************)
C21_Accounted == env.presses + Len(workers) = env.clicks

C21_InFlightWorkers == []C21_Accounted /\ <>[](env.presses = env.clicks)

\* The press of a thread whose unit was disabled and whose listener was
\* stopped during its delay, while the thread of another click is in flight.
C21_Witness ==
    /\ call.op = "perform_skinning" /\ call.keys = <<skinner.hotkey>>
    /\ ~skinner.enabled /\ ~skinner.running
    /\ Len(workers) = 1 /\ env.clicks = env.presses + 1

(***************************************************************************)
(* C22.  Skinner listener lifecycle: start() on a started unit creates and *)
(* subscribes no listener, stop() on a stopped unit changes nothing, at    *)
(* most one listener is subscribed at any time, and _running is true       *)
(* exactly when the unit holds a listener, which is then the one           *)
(* subscribed.                                                             *)
(***************************************************************************)
C22_OneListener ==
    /\ env.listeners <= 1
    /\ skinner.running <=> skinner.listener
    /\ skinner.listener <=> env.listeners = 1

C22_Step ==
    /\ (call'.op = "skinner_start" /\ skinner.running) =>
         (skinner' = skinner /\ env' = env)
    /\ (call'.op = "skinner_stop" /\ ~skinner.running) =>
         (skinner' = skinner /\ env' = env)

C22_ListenerLifecycle == []C22_OneListener /\ [][C22_Step]_vars

\* start() called on a unit that was started already.
C22_Witness ==
    /\ call.op = "skinner_start" /\ call.value = Flag(TRUE)
    /\ skinner.running /\ env.listeners = 1

(***************************************************************************)
(* C23.  Skinner toggle frame: toggle(enabled) changes the enabled flag    *)
(* alone; the listener, _running, the subscriptions and the threads in     *)
(* flight are as they were, in either listener state.                      *)
(***************************************************************************)
C23_Step ==
    call'.op = "skinner_toggle" =>
        /\ skinner' = [skinner EXCEPT !.enabled = (call'.key = "True")]
        /\ env' = env
        /\ workers' = workers

C23_ToggleFrame == [][C23_Step]_vars

\* toggle(False) on an enabled unit whose listener is subscribed.
C23_Witness ==
    /\ call.op = "skinner_toggle" /\ call.key = "False"
    /\ call.value = Flag(TRUE)
    /\ skinner.running /\ env.listeners = 1

(***************************************************************************)
(* C24.  Optimistic cooldown stamp: a check_* call that fires a slot sets  *)
(* last_cast_time to the clock it reads after the press and returns its    *)
(* fired result, whether the sink delivered the key or not; and after a    *)
(* press that failed, no check_* call that begins less than COOLDOWN after *)
(* the stamp presses a key.                                                *)
(***************************************************************************)
C24_Stamped ==
    (call.op \in CheckOps /\ Fired) =>
        /\ last_cast_time = now
        /\ last_cast_time >= last_press
        /\ call.heal_result # "None" \/ call.mana_restored

C24_Step ==
    ( /\ ~env.delivered
      /\ call'.op \in CheckOps
      /\ now - last_cast_time < CooldownTicks ) => call'.keys = <<>>

C24_OptimisticStamp == []C24_Stamped /\ [][C24_Step]_vars

\* A check made half a cooldown after a heal whose press failed, with a
\* reading below the thresholds: it pressed nothing.
C24_Witness ==
    /\ ~env.delivered
    /\ IsHeal /\ call.on_cooldown /\ call.keys = <<>>
    /\ Breached(call.hp, max_hp, critical_heal.threshold)
    /\ critical_heal.enabled
    /\ now > last_cast_time

(***************************************************************************)
(* C25.  The poll loop survives failures: the thread of run_loop ends only *)
(* by its test of running, after running has become false; an exception   *)
(* raised in an iteration is handled, and the handler backs off and starts *)
(* the next iteration.                                                     *)
(***************************************************************************)
C25_Ended == loop.pc \in {"done", "dead"}

C25_Step ==
    /\ (~C25_Ended /\ C25_Ended') =>
         (loop.pc = "top" /\ ~bot.running /\ loop'.pc = "done")
    /\ (loop.pc = "except" /\ loop' # loop) =>
         (loop'.pc = "top" /\ now' >= now + ExceptSleep)

C25_LoopSurvives == [][C25_Step]_vars

(***************************************************************************)
(* C27.  Potion-mode routing: the check a poll tick makes of the healer is *)
(* check_critical_and_mana_with_priority when critical_is_potion is true,  *)
(* and check_and_heal or check_and_restore_mana, never the priority        *)
(* method, when it is false.                                               *)
(***************************************************************************)
C27_PotionRouting ==
    (loop.pc \in {"mana", "sleep"} /\ call.op \in CheckOps) =>
        (critical_is_potion <=> IsPotion)

(***************************************************************************)
(* C30.  Heal before mana in a tick: the HP check is made before the mana  *)
(* check, which is made only when no heal fired; no tick presses more than *)
(* one heal-family key; and when the cooldown was ready as the tick began  *)
(* and an enabled heal slot and the enabled mana slot are both breached,   *)
(* the tick presses the key of the heal and not that of the mana restore.  *)
(***************************************************************************)
C30_HealBreached ==
    \/ critical_heal.enabled
         /\ Breached(loop.hp_current, max_hp, critical_heal.threshold)
    \/ heal.enabled /\ Breached(loop.hp_current, max_hp, heal.threshold)

C30_ManaBreached ==
    mana_restore.enabled
      /\ Breached(loop.mana_current, max_mana, mana_restore.threshold)

C30_Step ==
    /\ (loop' # loop /\ call'.op = "check_and_heal") => loop.pc = "heal"
    /\ (loop' # loop /\ call'.op = "check_and_restore_mana") =>
         (loop.pc = "mana" /\ loop.heal_result = "None")
    /\ (loop.pc = "mana" /\ loop'.pc = "sleep") =>
         /\ Len(loop'.keys) <= 1
         /\ (loop.ready /\ C30_HealBreached /\ C30_ManaBreached) =>
              /\ Len(loop'.keys) = 1
              /\ loop'.keys[1] \in {heal.hotkey, critical_heal.hotkey}
              /\ loop'.keys[1] # mana_restore.hotkey

C30_HealBeforeMana == [][C30_Step]_vars

\* The end of a tick that began with the cooldown ready and read HP and
\* mana both below their thresholds: one key, that of a heal.
C30_Witness ==
    /\ loop.pc = "sleep" /\ loop.ready
    /\ C30_HealBreached /\ C30_ManaBreached
    /\ loop.heal_result # "None" /\ Len(loop.keys) = 1

(***************************************************************************)
(* C26.  Haste is never cast immediately on enable, however the unit       *)
(* became enabled: no check_and_cast presses the hotkey sooner than 31     *)
(* seconds after the unit became enabled, by toggle(True) or by the load   *)
(* of the persisted settings.                                              *)
(***************************************************************************)
C26_NeverImmediate ==
    (IsCast /\ call.keys # <<>>) =>
        /\ env.enabled_at # None
        /\ call.at >= env.enabled_at + Seconds(HasteDelayMin)

(***************************************************************************)
(* C28.  Threshold range invariant: in every reachable state, after the    *)
(* load of the persisted settings and after any sequence of threshold      *)
(* events, the threshold of each of the three slots lies in [1, 99].       *)
(***************************************************************************)
C28_InRange(slot) ==
    MinThreshold <= slot.threshold /\ slot.threshold <= MaxThreshold

C28_ThresholdRange ==
    C28_InRange(heal) /\ C28_InRange(critical_heal) /\ C28_InRange(mana_restore)

(***************************************************************************)
(* C29.  Configuration and decision unit agree: after every threshold,     *)
(* enabled or hotkey event of the overlay the settings hold, for each      *)
(* slot, the threshold, the flag and the hotkey that the healer uses.      *)
(***************************************************************************)
C29_Events ==
    {"on_heal_threshold_change", "on_critical_threshold_change",
     "on_mana_threshold_change", "on_heal_toggle", "on_critical_toggle",
     "on_mana_toggle", "on_heal_hotkey_change", "on_critical_hotkey_change",
     "on_mana_hotkey_change"}

C29_ConfigAgrees ==
    call.op \in C29_Events =>
        /\ heal = HealConfig(config.heal_enabled, config.heal_threshold,
                             config.heal_hotkey)
        /\ critical_heal = HealConfig(config.critical_enabled,
                                      config.critical_threshold,
                                      config.critical_hotkey)
        /\ mana_restore = HealConfig(config.mana_enabled, config.mana_threshold,
                                     config.mana_hotkey)

(***************************************************************************)
(* C31.  Cooldown state is written only on dispatch: last_cast_time        *)
(* changes only in a check_* call that presses a key, and a check_* call   *)
(* that presses none leaves last_cast_time and the threshold, the enabled  *)
(* flag and the hotkey of the three slots unchanged.                       *)
(***************************************************************************)
C31_Step ==
    /\ last_cast_time' # last_cast_time =>
         (call'.op \in CheckOps /\ call'.keys # <<>>)
    /\ (call'.op \in CheckOps /\ call'.keys = <<>>) =>
         UNCHANGED <<last_cast_time, heal, critical_heal, mana_restore>>

C31_WrittenOnDispatch == [][C31_Step]_vars

\* A check_and_heal of a breaching reading that returned None because of the
\* cooldown a press had begun.
C31_Witness ==
    /\ IsHeal /\ ~Fired /\ call.on_cooldown
    /\ Breached(call.hp, max_hp, critical_heal.threshold)
    /\ critical_heal.enabled
    /\ last_cast_time > 0

(***************************************************************************)
(* C32.  Cached reading: read_status returns, separately for HP and for    *)
(* mana, the pair just parsed when the read succeeds, otherwise the pair   *)
(* of the most recent successful read of that resource, and None only if   *)
(* none has succeeded since construction or reset(); what it returns for   *)
(* one resource does not depend on the read of the other.                  *)
(***************************************************************************)
C32_Returned(result, seen, current, max) ==
    /\ result # Failed => <<current, max>> = result
    /\ result = Failed => <<current, max>> = seen
    /\ (current = None \/ max = None) => seen = Failed

C32_CachedReading ==
    call.op = "read_status" =>
        /\ C32_Returned(call.hp_result, env.hp_seen, call.status.hp_current,
                        call.status.hp_max)
        /\ C32_Returned(call.mana_result, env.mana_seen,
                        call.status.mana_current, call.status.mana_max)

\* The HP read failed after an earlier one had succeeded, while the mana
\* read succeeded with a new pair: the old HP pair and the new mana pair
\* are returned.
C32_Witness ==
    /\ call.op = "read_status"
    /\ call.hp_result = Failed /\ env.hp_seen = <<40, 100>>
    /\ call.status.hp_current = 40
    /\ call.mana_result = <<60, 90>>
    /\ call.status.mana_current = 60

(***************************************************************************)
(* C38.  Region reset takes effect: after the reset-config event the       *)
(* reader holds no HP region and no mana region and is_configured() is     *)
(* false, so that the poll loop reads nothing until regions are selected   *)
(* again.                                                                  *)
(***************************************************************************)
C38_RegionReset ==
    call.op = "on_reset_config" =>
        /\ ~reader.hp_region
        /\ ~reader.mana_region
        /\ ~is_configured(reader)

(***************************************************************************)
(* C37.  Potion mode never fires the normal heal:                          *)
(* check_critical_and_mana_with_priority presses only the hotkey of the    *)
(* critical slot or of the mana slot and never returns "normal", for any   *)
(* HP, also when the normal slot is enabled and the HP percentage is below *)
(* the normal threshold.                                                   *)
(***************************************************************************)
C37_NeverNormal ==
    IsPotion =>
        /\ call.heal_result # "normal"
        /\ \A i \in 1..Len(call.keys) :
             /\ call.keys[i] \in {critical_heal.hotkey, mana_restore.hotkey}
             /\ call.keys[i] # heal.hotkey

\* A call with the cooldown ready and the normal slot enabled and breached,
\* the critical slot not breached: no key is pressed.
C37_Witness ==
    /\ IsPotion /\ Ready
    /\ heal.enabled
    /\ Breached(call.hp, max_hp, heal.threshold)
    /\ critical_heal.enabled
    /\ ~Breached(call.hp, max_hp, critical_heal.threshold)
    /\ call.keys = <<>>

(***************************************************************************)
(* C39.  Haste spacing: in any sequence of toggle(True), toggle(False) and *)
(* check_and_cast calls on an AutoHaste that was enabled through           *)
(* toggle(True), any two presses of the haste hotkey are at least 31 s     *)
(* apart.                                                                  *)
(***************************************************************************)
C39_HasteSpacing ==
    (IsCast /\ call.keys # <<>> /\ call.prev_press # None) =>
        call.at - call.prev_press >= Seconds(HasteDelayMin)

\* A second press, 31 s after the first.
C39_Witness ==
    /\ IsCast /\ call.keys # <<>>
    /\ call.prev_press # None
    /\ call.at - call.prev_press = Seconds(HasteDelayMin)

(***************************************************************************)
(* C33.  Critical heal is not starved: while the bot stays active and      *)
(* every reading reports a non-zero HP below the critical threshold with   *)
(* the critical slot enabled, an HP check of the poll loop is followed by  *)
(* a press of the critical hotkey, for every mana reading and every        *)
(* advance of the clock between the HP check and the mana check.           *)
(***************************************************************************)
C33_Pending ==
    /\ bot.active /\ loop.pc = "heal"
    /\ critical_heal.enabled
    /\ Breached(loop.hp_current, max_hp, critical_heal.threshold)

C33_NotStarved == C33_Pending ~> (IsHeal /\ call.heal_result = "critical")

(***************************************************************************)
(* C34.  Haste non-immediacy under interleaving: with toggle(True) on the  *)
(* main thread and check_and_cast on the thread of run_loop running        *)
(* concurrently, no haste key is pressed between the moment enabled        *)
(* becomes true and 31 s later, in every interleaving of their steps.      *)
(***************************************************************************)
C34_NoEarlyCast ==
    (call.op = "cast_press" /\ env.enabled_at # None) =>
        call.at >= env.enabled_at + Seconds(HasteDelayMin)

(***************************************************************************)
(* C35.  No key after stop: once stop() has returned and until start() is  *)
(* called again, the thread of run_loop presses no heal, mana, eat or      *)
(* haste key, in every interleaving of stop() with an iteration in         *)
(* progress.                                                               *)
(***************************************************************************)
C35_PressOps ==
    {"eat_press", "cast_press", "check_and_heal", "check_and_restore_mana"}

C35_NoKeyAfterStop ==
    (call.op \in C35_PressOps /\ call.keys # <<>>) => bot.active

(***************************************************************************)
(* C36.  Eater reset is not lost: if the main thread calls                 *)
(* set_food_type(key) or toggle(True) while the thread of run_loop is      *)
(* between the eligibility check of check_and_eat and the write of         *)
(* next_eat_time, then after the write the eater is still eligible at      *)
(* once: the next check_and_eat eats again.                                *)
(***************************************************************************)
C36_ResetKept ==
    (call.op = "eat_stamp" /\ call.value = Flag(TRUE)) => eat_due(eater, now)

====
